---- MODULE Spec2Model ----
(***************************************************************************)
(* BankProductAnalyzer (src/core/bank_product_analyzer.py): per-client      *)
(* feature aggregation (analyze_client_behavior), the eight additive        *)
(* scoring rules and the selection policy (determine_best_product), and     *)
(* the batch loop over the clients of the table (process_all_clients), on   *)
(* the table that load_data reads, clean_data re-types and                  *)
(* process_hidden_test swaps for the hidden one.                            *)
(*                                                                          *)
(* Text is a sequence of Unicode code points, so that str.lower() and the   *)
(* substring test `word in text` are computed and not assumed.              *)
(* A float is a float64: sign, exponent and a significand of 53 bits, with  *)
(* sums and quotients rounded to the nearest float; every comparison with   *)
(* the not-a-number value is false.                                         *)
(* Product names are the ASCII transliterations of the source's names.      *)
(***************************************************************************)
EXTENDS Integers, Sequences, FiniteSets, TLC

VARIABLES
    transactions,   \* self.transactions: [columns, rows]
    client,         \* the client_code argument of analyze_client_behavior
    analysis,       \* the dict returned by analyze_client_behavior
    scores,         \* the `scores` dict built by determine_best_product
    result,         \* the (best_product, top4_products) tuple returned
    rngCalls,       \* number of random.random() calls made so far
    draw,           \* value of the last random.random() call, in hundredths
    pc,             \* position of the caller
    unique_clients, \* process_all_clients: the clients the loop iterates over
    position,       \* process_all_clients: number of clients taken by the loop
    results,        \* process_all_clients: the `results` list
    data_path,      \* self.data_path
    original_transactions,  \* process_hidden_test: the table it puts back
    caller,         \* the method that runs, or ran, the loop over the clients
    runs            \* number of calls of process_all_clients and
                    \* process_hidden_test made so far

vars == <<transactions, client, analysis, scores, result, rngCalls, draw, pc,
          unique_clients, position, results, data_path,
          original_transactions, caller, runs>>

\* what analyze_client_behavior and determine_best_product leave alone
lifecycle == <<data_path, original_transactions, caller, runs>>

----------------------------------------------------------------------------
(* Numbers *)

\* A float64 that is not NaN is (-1)^sign * (hi * 2^26 + lo) * 2^exp: a
\* significand of 53 bits in two limbs (2^52 <= hi * 2^26 + lo < 2^53), or
\* zero. Arithmetic rounds to the nearest float, ties to even, as the
\* hardware does. Infinities, subnormals and the negative zero are outside
\* the values the program is run on here.
Limb == 2^26

Zero == [sign |-> 0, exp |-> 0, hi |-> 0, lo |-> 0]
NaN == [sign |-> 0, exp |-> 1024, hi |-> 1, lo |-> 0]
IsNaN(x) == x.exp = 1024
IsZero(x) == x.hi = 0 /\ x.lo = 0

\* the number of bits of n, 0 < n < 2^31
BitLength(n) == CHOOSE k \in 1..31 : 2^(k - 1) <= n /\ (k = 31 \/ n < 2^k)

\* below, w is an unsigned integer [hi, lo] = hi * 2^26 + lo of up to 57
\* bits; its sticky tells that a fraction below its last bit was cut off

RECURSIVE ShiftLeft(_, _)
ShiftLeft(w, k) ==
    IF k = 0 THEN w
    ELSE IF k >= 26
    THEN ShiftLeft([hi |-> w.hi * Limb + w.lo, lo |-> 0, sticky |-> w.sticky],
                   k - 26)
    ELSE [hi |-> w.hi * 2^k + w.lo \div 2^(26 - k),
          lo |-> (w.lo % 2^(26 - k)) * 2^k,
          sticky |-> w.sticky]

RECURSIVE ShiftRight(_, _)
ShiftRight(w, k) ==
    IF k = 0 THEN w
    ELSE IF w.hi = 0 /\ w.lo = 0 THEN w
    ELSE IF k >= 26
    THEN ShiftRight([hi |-> w.hi \div Limb, lo |-> w.hi % Limb,
                     sticky |-> w.sticky \/ w.lo # 0], k - 26)
    ELSE [hi |-> w.hi \div 2^k,
          lo |-> w.lo \div 2^k + (w.hi % 2^k) * 2^(26 - k),
          sticky |-> w.sticky \/ w.lo % 2^k # 0]

\* the float nearest to (-1)^sign * (w + t) * 2^exp, where 0 <= t < 1 and
\* t > 0 exactly if w.sticky; a tie goes to the even significand
Round(sign, w, exp) ==
    LET \* the significand hi * 2^26 + lo, where lo may have reached 2^26
        Carried(bits, hi, lo) ==
            IF hi + lo \div Limb = 2^27
            THEN [sign |-> sign, exp |-> exp + bits - 52, hi |-> Limb, lo |-> 0]
            ELSE [sign |-> sign, exp |-> exp + bits - 53,
                  hi |-> hi + lo \div Limb, lo |-> lo % Limb]
        \* v is w in 56 bits: 53 bits, whose low limb is low, and 3 more
        Rounded(bits, v, low) ==
            Carried(bits, v.hi \div 8,
                    low + (IF \/ v.lo % 8 > 4
                              \/ v.lo % 8 = 4 /\ (v.sticky \/ low % 2 = 1)
                           THEN 1 ELSE 0))
        Cut(bits, v) == Rounded(bits, v, v.lo \div 8 + (v.hi % 8) * 2^23)
        Sized(bits) == Cut(bits, IF bits > 56 THEN ShiftRight(w, bits - 56)
                                 ELSE ShiftLeft(w, 56 - bits))
    IN IF w.hi = 0 /\ w.lo = 0 THEN Zero
       ELSE Sized(IF w.hi > 0 THEN 26 + BitLength(w.hi) ELSE BitLength(w.lo))

\* float(n) of an integer n, -2^31 < n < 2^31
Num(n) ==
    LET m == IF n < 0 THEN 0 - n ELSE n
    IN Round(IF n < 0 THEN 1 ELSE 0,
             [hi |-> m \div Limb, lo |-> m % Limb, sticky |-> FALSE], 0)

\* |x| < |y| and x < y for floats that are not NaN
MagLess(x, y) ==
    IF IsZero(y) THEN FALSE
    ELSE IF IsZero(x) THEN TRUE
    ELSE \/ x.exp < y.exp
         \/ x.exp = y.exp /\ x.hi < y.hi
         \/ x.exp = y.exp /\ x.hi = y.hi /\ x.lo < y.lo
Less(x, y) ==
    IF x.sign # y.sign THEN x.sign = 1
    ELSE IF x.sign = 0 THEN MagLess(x, y) ELSE MagLess(y, x)

\* the significand of x with three more bits below it
Guarded(x) == ShiftLeft([hi |-> x.hi, lo |-> x.lo, sticky |-> FALSE], 3)

\* |x| + |y| and |x| - |y| with the given sign, for |x| >= |y| > 0
AddMagnitudes(sign, x, y) ==
    LET Sum(a, b) ==
            Round(sign, [hi |-> a.hi + b.hi + (a.lo + b.lo) \div Limb,
                         lo |-> (a.lo + b.lo) % Limb,
                         sticky |-> b.sticky], x.exp - 3)
    IN Sum(Guarded(x), ShiftRight(Guarded(y), x.exp - y.exp))
SubMagnitudes(sign, x, y) ==
    LET Borrowed(a, b, lo) ==
            Round(sign, [hi |-> a.hi - b.hi - (IF lo < 0 THEN 1 ELSE 0),
                         lo |-> IF lo < 0 THEN lo + Limb ELSE lo,
                         sticky |-> b.sticky], x.exp - 3)
        Difference(a, b) ==
            Borrowed(a, b, a.lo - b.lo - (IF b.sticky THEN 1 ELSE 0))
    IN Difference(Guarded(x), ShiftRight(Guarded(y), x.exp - y.exp))

\* x + y
Add(x, y) ==
    IF IsNaN(x) \/ IsNaN(y) THEN NaN
    ELSE IF IsZero(x) THEN y
    ELSE IF IsZero(y) THEN x
    ELSE LET \* a + b for |a| >= |b|
             Ordered(a, b) ==
                 IF a.sign = b.sign THEN AddMagnitudes(a.sign, a, b)
                 ELSE IF MagLess(b, a) THEN SubMagnitudes(a.sign, a, b)
                 ELSE Zero
         IN Ordered(IF MagLess(x, y) THEN y ELSE x,
                    IF MagLess(x, y) THEN x ELSE y)

\* a < b and a - b (for a >= b) on the two limbs
LimbsLess(a, b) == a.hi < b.hi \/ (a.hi = b.hi /\ a.lo < b.lo)
LimbsSub(a, b) ==
    LET low == a.lo - b.lo
    IN [hi |-> a.hi - b.hi - (IF low < 0 THEN 1 ELSE 0),
        lo |-> IF low < 0 THEN low + Limb ELSE low]
LimbsDouble(a) ==
    [hi |-> 2 * a.hi + (2 * a.lo) \div Limb, lo |-> (2 * a.lo) % Limb]

RECURSIVE DivSteps(_, _, _)
\* long division: k more bits of the quotient s.q, of a remainder s.rem < d
DivSteps(s, d, k) ==
    IF k = 0
    THEN [hi |-> s.q.hi, lo |-> s.q.lo, sticky |-> s.rem.hi # 0 \/ s.rem.lo # 0]
    ELSE LET r == LimbsDouble(s.rem)
             q == LimbsDouble(s.q)
         IN IF LimbsLess(r, d)
            THEN DivSteps([rem |-> r, q |-> q], d, k - 1)
            ELSE DivSteps([rem |-> LimbsSub(r, d),
                           q |-> [q EXCEPT !.lo = q.lo + 1]], d, k - 1)

\* x / y for y other than zero
Div(x, y) ==
    IF IsNaN(x) \/ IsNaN(y) THEN NaN
    ELSE IF IsZero(x) THEN Zero
    ELSE LET start == IF LimbsLess(x, y)
                      THEN [rem |-> [hi |-> x.hi, lo |-> x.lo],
                            q |-> [hi |-> 0, lo |-> 0]]
                      ELSE [rem |-> LimbsSub(x, y), q |-> [hi |-> 0, lo |-> 1]]
         IN Round((x.sign + y.sign) % 2, DivSteps(start, y, 56),
                  x.exp - y.exp - 56)

\* abs(x)
Abs(x) == IF IsNaN(x) THEN NaN ELSE [x EXCEPT !.sign = 0]

\* the float nearest to n / d, as a decimal literal or a division gives it
Frac(n, d) == Div(Num(n), Num(d))

\* the floats of the number literals of determine_best_product
IntLiteral ==
    [n \in {0, 1, 30000, 50000, 100000, 150000, 200000, 300000} |-> Num(n)]
TenthsLiteral == [t \in 1..30 |-> Frac(t, 10)]

\* x > n, x < n for a float x and an integer literal n
Gt(x, n) == ~IsNaN(x) /\ Less(IntLiteral[n], x)
Lt(x, n) == ~IsNaN(x) /\ Less(x, IntLiteral[n])
\* x > t/10, x < t/10 for a float x and a decimal literal with one digit
GtTenths(x, t) == ~IsNaN(x) /\ Less(TenthsLiteral[t], x)
LtTenths(x, t) == ~IsNaN(x) /\ Less(x, TenthsLiteral[t])

RECURSIVE SumOver(_, _)
\* sum of f[k] over the keys k of S
SumOver(S, f) ==
    IF S = {} THEN 0
    ELSE LET k == CHOOSE k \in S : TRUE IN f[k] + SumOver(S \ {k}, f)

----------------------------------------------------------------------------
(* Text *)

\* str.lower(), by the Unicode character database of the interpreter: the
\* code points first, first + step, ..., last of a run <<first, last, offset,
\* step>> have the lower-case form c + offset; U+0130 has a form of two code
\* points; every other code point is its own lower-case form
LowerRuns ==
    {<<65, 90, 32, 1>>, <<192, 214, 32, 1>>, <<216, 222, 32, 1>>,
     <<256, 302, 1, 2>>, <<306, 310, 1, 2>>, <<313, 327, 1, 2>>,
     <<330, 374, 1, 2>>, <<376, 376, -121, 1>>, <<377, 381, 1, 2>>,
     <<385, 385, 210, 1>>, <<386, 388, 1, 2>>, <<390, 390, 206, 1>>,
     <<391, 391, 1, 1>>, <<393, 394, 205, 1>>, <<395, 395, 1, 1>>,
     <<398, 398, 79, 1>>, <<399, 399, 202, 1>>, <<400, 400, 203, 1>>,
     <<401, 401, 1, 1>>, <<403, 403, 205, 1>>, <<404, 404, 207, 1>>,
     <<406, 406, 211, 1>>, <<407, 407, 209, 1>>, <<408, 408, 1, 1>>,
     <<412, 412, 211, 1>>, <<413, 413, 213, 1>>, <<415, 415, 214, 1>>,
     <<416, 420, 1, 2>>, <<422, 422, 218, 1>>, <<423, 423, 1, 1>>,
     <<425, 425, 218, 1>>, <<428, 428, 1, 1>>, <<430, 430, 218, 1>>,
     <<431, 431, 1, 1>>, <<433, 434, 217, 1>>, <<435, 437, 1, 2>>,
     <<439, 439, 219, 1>>, <<440, 440, 1, 1>>, <<444, 444, 1, 1>>,
     <<452, 452, 2, 1>>, <<453, 453, 1, 1>>, <<455, 455, 2, 1>>,
     <<456, 456, 1, 1>>, <<458, 458, 2, 1>>, <<459, 475, 1, 2>>,
     <<478, 494, 1, 2>>, <<497, 497, 2, 1>>, <<498, 500, 1, 2>>,
     <<502, 502, -97, 1>>, <<503, 503, -56, 1>>, <<504, 542, 1, 2>>,
     <<544, 544, -130, 1>>, <<546, 562, 1, 2>>, <<570, 570, 10795, 1>>,
     <<571, 571, 1, 1>>, <<573, 573, -163, 1>>, <<574, 574, 10792, 1>>,
     <<577, 577, 1, 1>>, <<579, 579, -195, 1>>, <<580, 580, 69, 1>>,
     <<581, 581, 71, 1>>, <<582, 590, 1, 2>>, <<880, 882, 1, 2>>,
     <<886, 886, 1, 1>>, <<895, 895, 116, 1>>, <<902, 902, 38, 1>>,
     <<904, 906, 37, 1>>, <<908, 908, 64, 1>>, <<910, 911, 63, 1>>,
     <<913, 929, 32, 1>>, <<931, 939, 32, 1>>, <<975, 975, 8, 1>>,
     <<984, 1006, 1, 2>>, <<1012, 1012, -60, 1>>, <<1015, 1015, 1, 1>>,
     <<1017, 1017, -7, 1>>, <<1018, 1018, 1, 1>>, <<1021, 1023, -130, 1>>,
     <<1024, 1039, 80, 1>>, <<1040, 1071, 32, 1>>, <<1120, 1152, 1, 2>>,
     <<1162, 1214, 1, 2>>, <<1216, 1216, 15, 1>>, <<1217, 1229, 1, 2>>,
     <<1232, 1326, 1, 2>>, <<1329, 1366, 48, 1>>, <<4256, 4293, 7264, 1>>,
     <<4295, 4295, 7264, 1>>, <<4301, 4301, 7264, 1>>,
     <<5024, 5103, 38864, 1>>, <<5104, 5109, 8, 1>>,
     <<7312, 7354, -3008, 1>>, <<7357, 7359, -3008, 1>>,
     <<7680, 7828, 1, 2>>, <<7838, 7838, -7615, 1>>, <<7840, 7934, 1, 2>>,
     <<7944, 7951, -8, 1>>, <<7960, 7965, -8, 1>>, <<7976, 7983, -8, 1>>,
     <<7992, 7999, -8, 1>>, <<8008, 8013, -8, 1>>, <<8025, 8031, -8, 2>>,
     <<8040, 8047, -8, 1>>, <<8072, 8079, -8, 1>>, <<8088, 8095, -8, 1>>,
     <<8104, 8111, -8, 1>>, <<8120, 8121, -8, 1>>, <<8122, 8123, -74, 1>>,
     <<8124, 8124, -9, 1>>, <<8136, 8139, -86, 1>>, <<8140, 8140, -9, 1>>,
     <<8152, 8153, -8, 1>>, <<8154, 8155, -100, 1>>, <<8168, 8169, -8, 1>>,
     <<8170, 8171, -112, 1>>, <<8172, 8172, -7, 1>>, <<8184, 8185, -128, 1>>,
     <<8186, 8187, -126, 1>>, <<8188, 8188, -9, 1>>,
     <<8486, 8486, -7517, 1>>, <<8490, 8490, -8383, 1>>,
     <<8491, 8491, -8262, 1>>, <<8498, 8498, 28, 1>>, <<8544, 8559, 16, 1>>,
     <<8579, 8579, 1, 1>>, <<9398, 9423, 26, 1>>, <<11264, 11311, 48, 1>>,
     <<11360, 11360, 1, 1>>, <<11362, 11362, -10743, 1>>,
     <<11363, 11363, -3814, 1>>, <<11364, 11364, -10727, 1>>,
     <<11367, 11371, 1, 2>>, <<11373, 11373, -10780, 1>>,
     <<11374, 11374, -10749, 1>>, <<11375, 11375, -10783, 1>>,
     <<11376, 11376, -10782, 1>>, <<11378, 11378, 1, 1>>,
     <<11381, 11381, 1, 1>>, <<11390, 11391, -10815, 1>>,
     <<11392, 11490, 1, 2>>, <<11499, 11501, 1, 2>>, <<11506, 11506, 1, 1>>,
     <<42560, 42604, 1, 2>>, <<42624, 42650, 1, 2>>, <<42786, 42798, 1, 2>>,
     <<42802, 42862, 1, 2>>, <<42873, 42875, 1, 2>>,
     <<42877, 42877, -35332, 1>>, <<42878, 42886, 1, 2>>,
     <<42891, 42891, 1, 1>>, <<42893, 42893, -42280, 1>>,
     <<42896, 42898, 1, 2>>, <<42902, 42920, 1, 2>>,
     <<42922, 42922, -42308, 1>>, <<42923, 42923, -42319, 1>>,
     <<42924, 42924, -42315, 1>>, <<42925, 42925, -42305, 1>>,
     <<42926, 42926, -42308, 1>>, <<42928, 42928, -42258, 1>>,
     <<42929, 42929, -42282, 1>>, <<42930, 42930, -42261, 1>>,
     <<42931, 42931, 928, 1>>, <<42932, 42946, 1, 2>>,
     <<42948, 42948, -48, 1>>, <<42949, 42949, -42307, 1>>,
     <<42950, 42950, -35384, 1>>, <<42951, 42953, 1, 2>>,
     <<42960, 42960, 1, 1>>, <<42966, 42968, 1, 2>>, <<42997, 42997, 1, 1>>,
     <<65313, 65338, 32, 1>>, <<66560, 66599, 40, 1>>,
     <<66736, 66771, 40, 1>>, <<66928, 66938, 39, 1>>,
     <<66940, 66954, 39, 1>>, <<66956, 66962, 39, 1>>,
     <<66964, 66965, 39, 1>>, <<68736, 68786, 64, 1>>,
     <<71840, 71871, 32, 1>>, <<93760, 93791, 32, 1>>,
     <<125184, 125217, 34, 1>>}

\* the ranges <<first, last>> of the code points that are case-ignorable, and
\* of those that are cased and not case-ignorable
CaseIgnorableRanges ==
    {<<39, 39>>, <<46, 46>>, <<58, 58>>, <<94, 94>>, <<96, 96>>,
     <<168, 168>>, <<173, 173>>, <<175, 175>>, <<180, 180>>, <<183, 184>>,
     <<688, 879>>, <<884, 885>>, <<890, 890>>, <<900, 901>>, <<903, 903>>,
     <<1155, 1161>>, <<1369, 1369>>, <<1375, 1375>>, <<1425, 1469>>,
     <<1471, 1471>>, <<1473, 1474>>, <<1476, 1477>>, <<1479, 1479>>,
     <<1524, 1524>>, <<1536, 1541>>, <<1552, 1562>>, <<1564, 1564>>,
     <<1600, 1600>>, <<1611, 1631>>, <<1648, 1648>>, <<1750, 1757>>,
     <<1759, 1768>>, <<1770, 1773>>, <<1807, 1807>>, <<1809, 1809>>,
     <<1840, 1866>>, <<1958, 1968>>, <<2027, 2037>>, <<2042, 2042>>,
     <<2045, 2045>>, <<2070, 2093>>, <<2137, 2139>>, <<2184, 2184>>,
     <<2192, 2193>>, <<2200, 2207>>, <<2249, 2306>>, <<2362, 2362>>,
     <<2364, 2364>>, <<2369, 2376>>, <<2381, 2381>>, <<2385, 2391>>,
     <<2402, 2403>>, <<2417, 2417>>, <<2433, 2433>>, <<2492, 2492>>,
     <<2497, 2500>>, <<2509, 2509>>, <<2530, 2531>>, <<2558, 2558>>,
     <<2561, 2562>>, <<2620, 2620>>, <<2625, 2626>>, <<2631, 2632>>,
     <<2635, 2637>>, <<2641, 2641>>, <<2672, 2673>>, <<2677, 2677>>,
     <<2689, 2690>>, <<2748, 2748>>, <<2753, 2757>>, <<2759, 2760>>,
     <<2765, 2765>>, <<2786, 2787>>, <<2810, 2815>>, <<2817, 2817>>,
     <<2876, 2876>>, <<2879, 2879>>, <<2881, 2884>>, <<2893, 2893>>,
     <<2901, 2902>>, <<2914, 2915>>, <<2946, 2946>>, <<3008, 3008>>,
     <<3021, 3021>>, <<3072, 3072>>, <<3076, 3076>>, <<3132, 3132>>,
     <<3134, 3136>>, <<3142, 3144>>, <<3146, 3149>>, <<3157, 3158>>,
     <<3170, 3171>>, <<3201, 3201>>, <<3260, 3260>>, <<3263, 3263>>,
     <<3270, 3270>>, <<3276, 3277>>, <<3298, 3299>>, <<3328, 3329>>,
     <<3387, 3388>>, <<3393, 3396>>, <<3405, 3405>>, <<3426, 3427>>,
     <<3457, 3457>>, <<3530, 3530>>, <<3538, 3540>>, <<3542, 3542>>,
     <<3633, 3633>>, <<3636, 3642>>, <<3654, 3662>>, <<3761, 3761>>,
     <<3764, 3772>>, <<3782, 3782>>, <<3784, 3789>>, <<3864, 3865>>,
     <<3893, 3893>>, <<3895, 3895>>, <<3897, 3897>>, <<3953, 3966>>,
     <<3968, 3972>>, <<3974, 3975>>, <<3981, 3991>>, <<3993, 4028>>,
     <<4038, 4038>>, <<4141, 4144>>, <<4146, 4151>>, <<4153, 4154>>,
     <<4157, 4158>>, <<4184, 4185>>, <<4190, 4192>>, <<4209, 4212>>,
     <<4226, 4226>>, <<4229, 4230>>, <<4237, 4237>>, <<4253, 4253>>,
     <<4348, 4348>>, <<4957, 4959>>, <<5906, 5908>>, <<5938, 5939>>,
     <<5970, 5971>>, <<6002, 6003>>, <<6068, 6069>>, <<6071, 6077>>,
     <<6086, 6086>>, <<6089, 6099>>, <<6103, 6103>>, <<6109, 6109>>,
     <<6155, 6159>>, <<6211, 6211>>, <<6277, 6278>>, <<6313, 6313>>,
     <<6432, 6434>>, <<6439, 6440>>, <<6450, 6450>>, <<6457, 6459>>,
     <<6679, 6680>>, <<6683, 6683>>, <<6742, 6742>>, <<6744, 6750>>,
     <<6752, 6752>>, <<6754, 6754>>, <<6757, 6764>>, <<6771, 6780>>,
     <<6783, 6783>>, <<6823, 6823>>, <<6832, 6862>>, <<6912, 6915>>,
     <<6964, 6964>>, <<6966, 6970>>, <<6972, 6972>>, <<6978, 6978>>,
     <<7019, 7027>>, <<7040, 7041>>, <<7074, 7077>>, <<7080, 7081>>,
     <<7083, 7085>>, <<7142, 7142>>, <<7144, 7145>>, <<7149, 7149>>,
     <<7151, 7153>>, <<7212, 7219>>, <<7222, 7223>>, <<7288, 7293>>,
     <<7376, 7378>>, <<7380, 7392>>, <<7394, 7400>>, <<7405, 7405>>,
     <<7412, 7412>>, <<7416, 7417>>, <<7468, 7530>>, <<7544, 7544>>,
     <<7579, 7679>>, <<8125, 8125>>, <<8127, 8129>>, <<8141, 8143>>,
     <<8157, 8159>>, <<8173, 8175>>, <<8189, 8190>>, <<8203, 8207>>,
     <<8216, 8217>>, <<8228, 8228>>, <<8231, 8231>>, <<8234, 8238>>,
     <<8288, 8292>>, <<8294, 8303>>, <<8305, 8305>>, <<8319, 8319>>,
     <<8336, 8348>>, <<8400, 8432>>, <<11388, 11389>>, <<11503, 11505>>,
     <<11631, 11631>>, <<11647, 11647>>, <<11744, 11775>>, <<11823, 11823>>,
     <<12293, 12293>>, <<12330, 12333>>, <<12337, 12341>>, <<12347, 12347>>,
     <<12441, 12446>>, <<12540, 12542>>, <<40981, 40981>>, <<42232, 42237>>,
     <<42508, 42508>>, <<42607, 42610>>, <<42612, 42621>>, <<42623, 42623>>,
     <<42652, 42655>>, <<42736, 42737>>, <<42752, 42785>>, <<42864, 42864>>,
     <<42888, 42890>>, <<42994, 42996>>, <<43000, 43001>>, <<43010, 43010>>,
     <<43014, 43014>>, <<43019, 43019>>, <<43045, 43046>>, <<43052, 43052>>,
     <<43204, 43205>>, <<43232, 43249>>, <<43263, 43263>>, <<43302, 43309>>,
     <<43335, 43345>>, <<43392, 43394>>, <<43443, 43443>>, <<43446, 43449>>,
     <<43452, 43453>>, <<43471, 43471>>, <<43493, 43494>>, <<43561, 43566>>,
     <<43569, 43570>>, <<43573, 43574>>, <<43587, 43587>>, <<43596, 43596>>,
     <<43632, 43632>>, <<43644, 43644>>, <<43696, 43696>>, <<43698, 43700>>,
     <<43703, 43704>>, <<43710, 43711>>, <<43713, 43713>>, <<43741, 43741>>,
     <<43756, 43757>>, <<43763, 43764>>, <<43766, 43766>>, <<43867, 43871>>,
     <<43881, 43883>>, <<44005, 44005>>, <<44008, 44008>>, <<44013, 44013>>,
     <<64286, 64286>>, <<64434, 64450>>, <<65024, 65039>>, <<65043, 65043>>,
     <<65056, 65071>>, <<65106, 65106>>, <<65109, 65109>>, <<65279, 65279>>,
     <<65287, 65287>>, <<65294, 65294>>, <<65306, 65306>>, <<65342, 65342>>,
     <<65344, 65344>>, <<65392, 65392>>, <<65438, 65439>>, <<65507, 65507>>,
     <<65529, 65531>>, <<66045, 66045>>, <<66272, 66272>>, <<66422, 66426>>,
     <<67456, 67461>>, <<67463, 67504>>, <<67506, 67514>>, <<68097, 68099>>,
     <<68101, 68102>>, <<68108, 68111>>, <<68152, 68154>>, <<68159, 68159>>,
     <<68325, 68326>>, <<68900, 68903>>, <<69291, 69292>>, <<69446, 69456>>,
     <<69506, 69509>>, <<69633, 69633>>, <<69688, 69702>>, <<69744, 69744>>,
     <<69747, 69748>>, <<69759, 69761>>, <<69811, 69814>>, <<69817, 69818>>,
     <<69821, 69821>>, <<69826, 69826>>, <<69837, 69837>>, <<69888, 69890>>,
     <<69927, 69931>>, <<69933, 69940>>, <<70003, 70003>>, <<70016, 70017>>,
     <<70070, 70078>>, <<70089, 70092>>, <<70095, 70095>>, <<70191, 70193>>,
     <<70196, 70196>>, <<70198, 70199>>, <<70206, 70206>>, <<70367, 70367>>,
     <<70371, 70378>>, <<70400, 70401>>, <<70459, 70460>>, <<70464, 70464>>,
     <<70502, 70508>>, <<70512, 70516>>, <<70712, 70719>>, <<70722, 70724>>,
     <<70726, 70726>>, <<70750, 70750>>, <<70835, 70840>>, <<70842, 70842>>,
     <<70847, 70848>>, <<70850, 70851>>, <<71090, 71093>>, <<71100, 71101>>,
     <<71103, 71104>>, <<71132, 71133>>, <<71219, 71226>>, <<71229, 71229>>,
     <<71231, 71232>>, <<71339, 71339>>, <<71341, 71341>>, <<71344, 71349>>,
     <<71351, 71351>>, <<71453, 71455>>, <<71458, 71461>>, <<71463, 71467>>,
     <<71727, 71735>>, <<71737, 71738>>, <<71995, 71996>>, <<71998, 71998>>,
     <<72003, 72003>>, <<72148, 72151>>, <<72154, 72155>>, <<72160, 72160>>,
     <<72193, 72202>>, <<72243, 72248>>, <<72251, 72254>>, <<72263, 72263>>,
     <<72273, 72278>>, <<72281, 72283>>, <<72330, 72342>>, <<72344, 72345>>,
     <<72752, 72758>>, <<72760, 72765>>, <<72767, 72767>>, <<72850, 72871>>,
     <<72874, 72880>>, <<72882, 72883>>, <<72885, 72886>>, <<73009, 73014>>,
     <<73018, 73018>>, <<73020, 73021>>, <<73023, 73029>>, <<73031, 73031>>,
     <<73104, 73105>>, <<73109, 73109>>, <<73111, 73111>>, <<73459, 73460>>,
     <<78896, 78904>>, <<92912, 92916>>, <<92976, 92982>>, <<92992, 92995>>,
     <<94031, 94031>>, <<94095, 94111>>, <<94176, 94177>>, <<94179, 94180>>,
     <<110576, 110579>>, <<110581, 110587>>, <<110589, 110590>>,
     <<113821, 113822>>, <<113824, 113827>>, <<118528, 118573>>,
     <<118576, 118598>>, <<119143, 119145>>, <<119155, 119170>>,
     <<119173, 119179>>, <<119210, 119213>>, <<119362, 119364>>,
     <<121344, 121398>>, <<121403, 121452>>, <<121461, 121461>>,
     <<121476, 121476>>, <<121499, 121503>>, <<121505, 121519>>,
     <<122880, 122886>>, <<122888, 122904>>, <<122907, 122913>>,
     <<122915, 122916>>, <<122918, 122922>>, <<123184, 123197>>,
     <<123566, 123566>>, <<123628, 123631>>, <<125136, 125142>>,
     <<125252, 125259>>, <<127995, 127999>>, <<917505, 917505>>,
     <<917536, 917631>>, <<917760, 917999>>}
CasedRanges ==
    {<<65, 90>>, <<97, 122>>, <<170, 170>>, <<181, 181>>, <<186, 186>>,
     <<192, 214>>, <<216, 246>>, <<248, 442>>, <<444, 447>>, <<452, 659>>,
     <<661, 687>>, <<880, 883>>, <<886, 887>>, <<891, 893>>, <<895, 895>>,
     <<902, 902>>, <<904, 906>>, <<908, 908>>, <<910, 929>>, <<931, 1013>>,
     <<1015, 1153>>, <<1162, 1327>>, <<1329, 1366>>, <<1376, 1416>>,
     <<4256, 4293>>, <<4295, 4295>>, <<4301, 4301>>, <<4304, 4346>>,
     <<4349, 4351>>, <<5024, 5109>>, <<5112, 5117>>, <<7296, 7304>>,
     <<7312, 7354>>, <<7357, 7359>>, <<7424, 7467>>, <<7531, 7543>>,
     <<7545, 7578>>, <<7680, 7957>>, <<7960, 7965>>, <<7968, 8005>>,
     <<8008, 8013>>, <<8016, 8023>>, <<8025, 8025>>, <<8027, 8027>>,
     <<8029, 8029>>, <<8031, 8061>>, <<8064, 8116>>, <<8118, 8124>>,
     <<8126, 8126>>, <<8130, 8132>>, <<8134, 8140>>, <<8144, 8147>>,
     <<8150, 8155>>, <<8160, 8172>>, <<8178, 8180>>, <<8182, 8188>>,
     <<8450, 8450>>, <<8455, 8455>>, <<8458, 8467>>, <<8469, 8469>>,
     <<8473, 8477>>, <<8484, 8484>>, <<8486, 8486>>, <<8488, 8488>>,
     <<8490, 8493>>, <<8495, 8500>>, <<8505, 8505>>, <<8508, 8511>>,
     <<8517, 8521>>, <<8526, 8526>>, <<8544, 8575>>, <<8579, 8580>>,
     <<9398, 9449>>, <<11264, 11387>>, <<11390, 11492>>, <<11499, 11502>>,
     <<11506, 11507>>, <<11520, 11557>>, <<11559, 11559>>, <<11565, 11565>>,
     <<42560, 42605>>, <<42624, 42651>>, <<42786, 42863>>, <<42865, 42887>>,
     <<42891, 42894>>, <<42896, 42954>>, <<42960, 42961>>, <<42963, 42963>>,
     <<42965, 42969>>, <<42997, 42998>>, <<43002, 43002>>, <<43824, 43866>>,
     <<43872, 43880>>, <<43888, 43967>>, <<64256, 64262>>, <<64275, 64279>>,
     <<65313, 65338>>, <<65345, 65370>>, <<66560, 66639>>, <<66736, 66771>>,
     <<66776, 66811>>, <<66928, 66938>>, <<66940, 66954>>, <<66956, 66962>>,
     <<66964, 66965>>, <<66967, 66977>>, <<66979, 66993>>, <<66995, 67001>>,
     <<67003, 67004>>, <<68736, 68786>>, <<68800, 68850>>, <<71840, 71903>>,
     <<93760, 93823>>, <<119808, 119892>>, <<119894, 119964>>,
     <<119966, 119967>>, <<119970, 119970>>, <<119973, 119974>>,
     <<119977, 119980>>, <<119982, 119993>>, <<119995, 119995>>,
     <<119997, 120003>>, <<120005, 120069>>, <<120071, 120074>>,
     <<120077, 120084>>, <<120086, 120092>>, <<120094, 120121>>,
     <<120123, 120126>>, <<120128, 120132>>, <<120134, 120134>>,
     <<120138, 120144>>, <<120146, 120485>>, <<120488, 120512>>,
     <<120514, 120538>>, <<120540, 120570>>, <<120572, 120596>>,
     <<120598, 120628>>, <<120630, 120654>>, <<120656, 120686>>,
     <<120688, 120712>>, <<120714, 120744>>, <<120746, 120770>>,
     <<120772, 120779>>, <<122624, 122633>>, <<122635, 122654>>,
     <<125184, 125251>>, <<127280, 127305>>, <<127312, 127337>>,
     <<127344, 127369>>}

InRanges(c, ranges) == \E r \in ranges : r[1] <= c /\ c <= r[2]

\* str.lower() on one code point: U+0130 gives two code points, a code
\* point of a run its lower-case form, any other code point itself
LowerChar(c) ==
    LET Form(run) ==
            IF run = {} THEN <<c>> ELSE <<c + (CHOOSE r \in run : TRUE)[3]>>
    IN IF c = 304 THEN <<105, 775>>
       ELSE Form({r \in LowerRuns : /\ r[1] <= c
                                    /\ c <= r[2]
                                    /\ (c - r[1]) % r[4] = 0})

\* the capital sigma s[i] is final: a cased letter comes before it and none
\* after it, case-ignorable code points in between skipped
FinalSigma(s, i) ==
    LET \* the positions of the cased and of the case-ignorable code points
        Final(cased, ignorable) ==
            /\ \E j \in 1..(i - 1) :
                  j \in cased /\ \A k \in (j + 1)..(i - 1) : k \in ignorable
            /\ ~\E j \in (i + 1)..Len(s) :
                  j \in cased /\ \A k \in (i + 1)..(j - 1) : k \in ignorable
    IN Final({j \in 1..Len(s) : InRanges(s[j], CasedRanges)},
             {j \in 1..Len(s) : InRanges(s[j], CaseIgnorableRanges)})

RECURSIVE LowerPrefix(_, _)
LowerPrefix(s, n) ==
    IF n = 0 THEN <<>>
    ELSE LowerPrefix(s, n - 1)
         \o (IF s[n] = 931 /\ FinalSigma(s, n) THEN <<962>> ELSE LowerChar(s[n]))

\* str.lower()
Lower(s) == LowerPrefix(s, Len(s))

\* the code points str.strip() removes from both ends
Whitespace ==
    {9, 10, 11, 12, 13, 28, 29, 30, 31, 32, 133, 160, 5760, 8192, 8193, 8194,
     8195, 8196, 8197, 8198, 8199, 8200, 8201, 8202, 8232, 8233, 8239, 8287,
     12288}

\* str.strip()
Strip(s) ==
    LET kept == {i \in 1..Len(s) : s[i] \notin Whitespace}
    IN IF kept = {} THEN <<>>
       ELSE LET first == CHOOSE i \in kept : \A j \in kept : i <= j
                last == CHOOSE i \in kept : \A j \in kept : i >= j
            IN SubSeq(s, first, last)

\* the ranges of the decimal digits of Unicode, which the pattern \d matches
DigitRanges ==
    {<<48, 57>>, <<1632, 1641>>, <<1776, 1785>>, <<1984, 1993>>,
     <<2406, 2415>>, <<2534, 2543>>, <<2662, 2671>>, <<2790, 2799>>,
     <<2918, 2927>>, <<3046, 3055>>, <<3174, 3183>>, <<3302, 3311>>,
     <<3430, 3439>>, <<3558, 3567>>, <<3664, 3673>>, <<3792, 3801>>,
     <<3872, 3881>>, <<4160, 4169>>, <<4240, 4249>>, <<6112, 6121>>,
     <<6160, 6169>>, <<6470, 6479>>, <<6608, 6617>>, <<6784, 6793>>,
     <<6800, 6809>>, <<6992, 7001>>, <<7088, 7097>>, <<7232, 7241>>,
     <<7248, 7257>>, <<42528, 42537>>, <<43216, 43225>>, <<43264, 43273>>,
     <<43472, 43481>>, <<43504, 43513>>, <<43600, 43609>>, <<44016, 44025>>,
     <<65296, 65305>>, <<66720, 66729>>, <<68912, 68921>>, <<69734, 69743>>,
     <<69872, 69881>>, <<69942, 69951>>, <<70096, 70105>>, <<70384, 70393>>,
     <<70736, 70745>>, <<70864, 70873>>, <<71248, 71257>>, <<71360, 71369>>,
     <<71472, 71481>>, <<71904, 71913>>, <<72016, 72025>>, <<72784, 72793>>,
     <<73040, 73049>>, <<73120, 73129>>, <<92768, 92777>>, <<92864, 92873>>,
     <<93008, 93017>>, <<120782, 120831>>, <<123200, 123209>>,
     <<123632, 123641>>, <<125264, 125273>>, <<130032, 130041>>}

\* Python's `word in text`
Contains(text, word) ==
    \E i \in 1..(Len(text) - Len(word) + 1) :
        \A k \in 1..Len(word) : text[i + k - 1] = word[k]

\* any(word in text.lower() for word in keywords)
ContainsAny(text, keywords) ==
    LET lowered == Lower(text)
    IN \E j \in 1..Len(keywords) : Contains(lowered, keywords[j])

travel_keywords == <<
    <<1090, 1072, 1082, 1089, 1080>>,                                  \* такси
    <<116, 97, 120, 105>>,                                             \* taxi
    <<1086, 1090, 1077, 1083, 1100>>,                                  \* отель
    <<104, 111, 116, 101, 108>>,                                       \* hotel
    <<1087, 1091, 1090, 1077, 1096, 1077, 1089, 1090, 1074, 1080, 1077>>, \* путешествие
    <<116, 114, 97, 118, 101, 108>>,                                   \* travel
    <<1072, 1074, 1080, 1072, 1073, 1080, 1083, 1077, 1090>>,          \* авиабилет
    <<1073, 1080, 1083, 1077, 1090>> >>                                \* билет

premium_keywords == <<
    <<1088, 1077, 1089, 1090, 1086, 1088, 1072, 1085>>,                \* ресторан
    <<114, 101, 115, 116, 97, 117, 114, 97, 110, 116>>,                \* restaurant
    <<1082, 1072, 1092, 1077>>,                                        \* кафе
    <<99, 97, 102, 101>>,                                              \* cafe
    <<1082, 1086, 1089, 1084, 1077, 1090, 1080, 1082, 1072>>,          \* косметика
    <<99, 111, 115, 109, 101, 116, 105, 99, 115>>,                     \* cosmetics
    <<1087, 1072, 1088, 1092, 1102, 1084>>,                            \* парфюм
    <<112, 101, 114, 102, 117, 109, 101>>,                             \* perfume
    <<1102, 1074, 1077, 1083, 1080, 1088, 1085, 1099, 1077>>,          \* ювелирные
    <<106, 101, 119, 101, 108, 114, 121>>,                             \* jewelry
    <<1079, 1086, 1083, 1086, 1090, 1086>>,                            \* золото
    <<103, 111, 108, 100>>,                                            \* gold
    <<1091, 1082, 1088, 1072, 1096, 1077, 1085, 1080, 1103>> >>        \* украшения

\* the words counted in the descriptions
currency_words == <<
    <<117, 115, 100>>,                                                 \* usd
    <<101, 117, 114>>,                                                 \* eur
    <<1076, 1086, 1083, 1083, 1072, 1088>>,                            \* доллар
    <<1077, 1074, 1088, 1086>>,                                        \* евро
    <<102, 120, 95, 98, 117, 121>>,                                    \* fx_buy
    <<102, 120, 95, 115, 101, 108, 108>> >>                            \* fx_sell

online_words == <<
    <<1086, 1085, 1083, 1072, 1081, 1085>>,                            \* онлайн
    <<111, 110, 108, 105, 110, 101>>,                                  \* online
    <<1087, 1086, 1076, 1087, 1080, 1089, 1082, 1072>>,                \* подписка
    <<115, 117, 98, 115, 99, 114, 105, 112, 116, 105, 111, 110>> >>    \* subscription

currency_categories == <<
    <<117, 115, 100>>,                                                 \* usd
    <<101, 117, 114>>,                                                 \* eur
    <<1076, 1086, 1083, 1083, 1072, 1088>>,                            \* доллар
    <<1077, 1074, 1088, 1086>>,                                        \* евро
    <<1074, 1072, 1083, 1102, 1090, 1072>> >>                          \* валюта

----------------------------------------------------------------------------
(* The cells of the table and clean_data *)

MaxDecimals == 1    \* most decimals of a number cell

\* a missing client identifier (NaN), and a missing cell (NaN) of a text
\* column: no code point is negative
MissingId == 0 - 1
MissingText == <<0 - 1>>
\* a cell of a number column that read_csv left as text
TextCell(text) == [text |-> text]
IsText(cell) == "text" \in DOMAIN cell

NanText == <<110, 97, 110>>                  \* "nan"

RECURSIVE Str(_)
\* str(n) of a non-negative integer: its decimal digits
Str(n) == IF n < 10 THEN <<48 + n>> ELSE Str(n \div 10) \o <<48 + (n % 10)>>

\* str() of a client identifier, on a cell and on client_code alike
IdStr(id) == IF id = MissingId THEN NanText ELSE Str(id)

\* astype(str) on a cell of a text column
CellStr(cell) == IF cell = MissingText THEN NanText ELSE cell

RECURSIVE Padded(_, _)
\* the last k decimal digits of n
Padded(n, k) == IF k = 0 THEN <<>> ELSE Padded(n \div 10, k - 1) \o <<48 + (n % 10)>>

\* str(x) of a float below 2^31 in magnitude with at most MaxDecimals
\* decimals: the shortest decimal that reads back as x
FloatStr(x) ==
    IF IsNaN(x) THEN NanText
    ELSE LET \* whole.d with k decimals reads back as |x|
             ReadsBack(whole, k, d) == Frac(whole * 10^k + d, 10^k) = Abs(x)
             Written(whole, k, d) ==
                 (IF x.sign = 1 THEN <<45>> ELSE <<>>)
                 \o Str(whole) \o <<46>> \o Padded(d, k)
             \* the decimals: the fewest that read back
             Shortest(whole, fits) ==
                 Written(whole, fits[1], fits[2])
             Decimals(whole) ==
                 Shortest(whole,
                     CHOOSE f \in (1..MaxDecimals) \X (0..(10^MaxDecimals - 1)) :
                         /\ f[2] < 10^f[1]
                         /\ ReadsBack(whole, f[1], f[2])
                         /\ \A j \in 1..(f[1] - 1) :
                               \A e \in 0..(10^j - 1) : ~ReadsBack(whole, j, e))
             Whole(cut) == Decimals(cut.hi * Limb + cut.lo)
         IN Whole(ShiftRight([hi |-> x.hi, lo |-> x.lo, sticky |-> FALSE],
                             0 - x.exp))

\* astype(str) on a cell of a number column
NumberStr(cell) == IF IsText(cell) THEN cell.text ELSE FloatStr(cell)

\* str.replace(r'[^\d.,-]', '', regex=True)
KeepNumberChars(text) ==
    SelectSeq(text, LAMBDA c : InRanges(c, DigitRanges) \/ c \in {44, 45, 46})

\* str.replace(',', '.')
CommaToPoint(text) == [i \in 1..Len(text) |-> IF text[i] = 44 THEN 46 ELSE text[i]]

RECURSIVE DigitsValue(_, _)
\* the number written by the first n of the ASCII digits
DigitsValue(digits, n) ==
    IF n = 0 THEN 0 ELSE 10 * DigitsValue(digits, n - 1) + (digits[n] - 48)

\* pd.to_numeric(errors='coerce') on one text: an optional minus sign, ASCII
\* digits with at most one point among them and at least one digit; any other
\* text is NaN
ParseNumber(text) ==
    LET negative == Len(text) > 0 /\ text[1] = 45
        Signed(value) ==
            IF negative /\ ~IsZero(value) THEN [value EXCEPT !.sign = 1]
            ELSE value
        Read(body, points, digits) ==
            IF \/ Cardinality(points) > 1
               \/ Len(digits) = 0
               \/ Len(digits) + Cardinality(points) # Len(body)
            THEN NaN
            ELSE Signed(Div(Num(DigitsValue(digits, Len(digits))),
                            Num(10^(IF points = {} THEN 0
                                    ELSE Len(body) - (CHOOSE i \in points : TRUE)))))
        Split(body) == Read(body, {i \in 1..Len(body) : body[i] = 46},
                            SelectSeq(body, LAMBDA c : c \in 48..57))
    IN Split(IF negative THEN Tail(text) ELSE text)

\* lines 130-132 on one cell of an amount column
CleanNumber(cell) == ParseNumber(CommaToPoint(KeepNumberChars(NumberStr(cell))))

\* line 139 on one cell of a category column
CleanText(cell) == Lower(Strip(CellStr(cell)))

----------------------------------------------------------------------------
(* Category labels of the transactions *)

MaxCount == 10      \* largest occurrence count of one category
MaxPlain == 3       \* largest number of categories without any keyword

LabelTaxi == <<84, 65, 88, 304>>             \* "TAXİ"
LabelCafe == <<1082, 1072, 1092, 1077>>      \* "кафе"
LabelUsd == <<117, 115, 100>>                \* "usd"
\* "c1", "c2", ...: categories that contain no keyword
PlainLabel(k) == <<99, 48 + k>>

CategoryLabels ==
    {LabelTaxi, LabelCafe, LabelUsd} \cup {PlainLabel(k) : k \in 1..MaxPlain}

\* ContainsAny, evaluated once for each label of CategoryLabels
KeywordMemo ==
    [keywords \in {travel_keywords, premium_keywords, currency_categories} |->
        {c \in CategoryLabels : ContainsAny(c, keywords)}]

\* any(word in category.lower() for word in keywords)
CategoryMatches(category, keywords) ==
    LET Known(memo) ==
            IF category \in CategoryLabels /\ keywords \in DOMAIN memo
            THEN category \in memo[keywords]
            ELSE ContainsAny(category, keywords)
    IN Known(KeywordMemo)

----------------------------------------------------------------------------
(* Product catalog: the keys of `scores`, in insertion order *)

TravelCard == "Karta dlya puteshestviy"      \* 'Карта для путешествий'
PremiumCard == "Premialnaya karta"           \* 'Премиальная карта'
CreditCard == "Kreditnaya karta"             \* 'Кредитная карта'
CurrencyExchange == "Obmen valyut"           \* 'Обмен валют'
DepositAccum == "Depozit nakopitelnyy"       \* 'Депозит накопительный'
DepositSavings == "Depozit sberegatelnyy"    \* 'Депозит сберегательный'
Investments == "Investitsii"                 \* 'Инвестиции'
CashLoan == "Kredit nalichnymi"              \* 'Кредит наличными'

ProductCatalog ==
    <<TravelCard, PremiumCard, CreditCard, CurrencyExchange,
      DepositAccum, DepositSavings, Investments, CashLoan>>

Products == {ProductCatalog[i] : i \in 1..Len(ProductCatalog)}

CatalogIndex(p) == CHOOSE i \in 1..Len(ProductCatalog) : ProductCatalog[i] = p

DefaultProduct == DepositAccum
DefaultTop4 == <<DepositAccum, DepositSavings, Investments, CreditCard>>

\* the empty dict {} returned for a client without rows
EmptyAnalysis == <<>>
IsEmpty(a) == DOMAIN a = {}

----------------------------------------------------------------------------
(* analyze_client_behavior *)

\* ClientData without the client filter
ClientDataUnfiltered(table, client_code) == table.rows

\* the rows of the table whose client column, as a string, equals
\* str(client_code); a table has one client-identifier column and r.id is
\* its cell
ClientData(table, client_code) ==
    SelectSeq(table.rows, LAMBDA r : IdStr(r.id) = IdStr(client_code))

\* the column analyze_client_behavior filters on: 'client_code' if the
\* table has it, 'client_id' otherwise
AnalyzeColumn(table) ==
    IF "client_code" \in table.columns THEN "client_code" ELSE "client_id"

\* the outcome of a call that raises KeyError (a column the table lacks) or
\* TypeError (a text among the numbers of a column)
KeyError == [raised |-> "KeyError"]
TypeError == [raised |-> "TypeError"]
Raised(out) == "raised" \in DOMAIN out

Column(rows, field) == [i \in 1..Len(rows) |-> rows[i][field]]

RECURSIVE SumFirst(_, _)
SumFirst(values, n) ==
    IF n = 0 THEN Num(0)
    ELSE IF IsNaN(values[n]) THEN SumFirst(values, n - 1)
    ELSE Add(SumFirst(values, n - 1), values[n])

\* Series.sum(): NaN values are skipped, the sum of nothing is 0
SeriesSum(values) == SumFirst(values, Len(values))

\* SeriesMean that counts a NaN as a zero
SeriesMeanNaNAsZero(values) ==
    LET total == SeriesSum(values)
    IN IF Len(values) = 0 THEN NaN
       ELSE Div(total, Num(Len(values)))

\* Series.mean(): NaN values are skipped, the mean of nothing is NaN
SeriesMean(values) ==
    LET valid == SelectSeq(values, LAMBDA x : ~IsNaN(x))
        total == SeriesSum(valid)
    IN IF Len(valid) = 0 THEN NaN
       ELSE Div(total, Num(Len(valid)))

\* Series.abs()
SeriesAbs(values) == [i \in 1..Len(values) |-> Abs(values[i])]

\* client_data[client_data['amount'] < 0]['amount'].abs().sum()
Spending(rows) ==
    SeriesSum(SeriesAbs(SelectSeq(Column(rows, "amount"), LAMBDA x : Lt(x, 0))))

\* client_data[client_data['amount'] > 0]['amount'].sum()
Income(rows) ==
    SeriesSum(SelectSeq(Column(rows, "amount"), LAMBDA x : Gt(x, 0)))

\* IncomeFloor that guards against a zero income only
IncomeFloorZeroOnly(income) == IF IsZero(income) THEN Num(1) ELSE income

\* max(income, 1): 1 only if it is greater than income
IncomeFloor(income) == IF Lt(income, 1) THEN Num(1) ELSE income

\* client_data['balance'].mean()
MeanBalance(rows) == SeriesMean(Column(rows, "balance"))

\* client_data['category'].value_counts().to_dict()
ValueCounts(rows) ==
    [c \in {rows[i].category : i \in 1..Len(rows)} \ {MissingText} |->
        Cardinality({i \in 1..Len(rows) : rows[i].category = c})]

RECURSIVE JoinDescriptions(_, _)
\* ' '.join(client_data['description'].astype(str)), first n rows
JoinDescriptions(rows, n) ==
    IF n = 0 THEN <<>>
    ELSE IF n = 1 THEN CellStr(rows[1].description)
    ELSE JoinDescriptions(rows, n - 1) \o <<32>> \o CellStr(rows[n].description)

\* KeywordHits that counts a word once for every row that holds it
KeywordHitsPerRow(rows, words) ==
    SumOver(1..Len(rows),
            [i \in 1..Len(rows) |->
                Cardinality({j \in 1..Len(words) :
                                Contains(Lower(CellStr(rows[i].description)),
                                         words[j])})])

\* sum(1 for word in words if word in desc_text.lower())
KeywordHits(rows, words) ==
    LET desc_text == Lower(JoinDescriptions(rows, Len(rows)))
    IN Cardinality({j \in 1..Len(words) : Contains(desc_text, words[j])})

\* analyze_client_behavior(client_code) on the table
analyze_client_behavior(table, client_code) ==
    LET client_data == ClientData(table, client_code)
        spending == Spending(client_data)
    IN IF AnalyzeColumn(table) \notin table.columns THEN KeyError
       ELSE IF Len(client_data) = 0 THEN EmptyAnalysis
       ELSE IF \E i \in 1..Len(client_data) :
                  \/ "balance" \in table.columns /\ IsText(client_data[i].balance)
                  \/ "amount" \in table.columns /\ IsText(client_data[i].amount)
       THEN TypeError
       ELSE [client_code |-> client_code,
             total_transactions |-> Len(client_data),
             avg_balance |->
                 IF "balance" \in table.columns THEN MeanBalance(client_data)
                 ELSE Num(0),
             total_spending |->
                 IF "amount" \in table.columns THEN spending ELSE Num(0),
             categories |->
                 IF "category" \in table.columns THEN ValueCounts(client_data)
                 ELSE <<>>,
             currency_operations |->
                 IF "description" \in table.columns
                 THEN KeywordHits(client_data, currency_words) ELSE 0,
             online_services |->
                 IF "description" \in table.columns
                 THEN KeywordHits(client_data, online_words) ELSE 0,
             regular_loans |-> 0,
             outflows_vs_inflows |->
                 IF "amount" \in table.columns
                 THEN Div(spending, IncomeFloor(Income(client_data)))
                 ELSE Num(0)]

----------------------------------------------------------------------------
(* determine_best_product: the scoring rules *)

\* sum of count * weight over the categories whose lower-cased label
\* contains a keyword
CategoryBonus(categories, keywords, weight) ==
    SumOver({c \in DOMAIN categories : CategoryMatches(c, keywords)},
            [c \in DOMAIN categories |-> categories[c] * weight])

TravelScore(a) ==
    CategoryBonus(a.categories, travel_keywords, 3)
    + (IF a.currency_operations > 0 THEN a.currency_operations * 4 ELSE 0)
    + (IF a.currency_operations > 3 THEN 10 ELSE 0)

PremiumScore(a) ==
    (IF Gt(a.avg_balance, 200000) THEN 15
     ELSE IF Gt(a.avg_balance, 100000) THEN 8 ELSE 0)
    + CategoryBonus(a.categories, premium_keywords, 4)

CreditScore(a) ==
    (IF a.online_services > 0 THEN a.online_services * 3 ELSE 0)
    + (IF a.online_services > 5 THEN 8 ELSE 0)
    + (IF Cardinality(DOMAIN a.categories) > 5 THEN 6
       ELSE IF Cardinality(DOMAIN a.categories) > 3 THEN 3 ELSE 0)
    + (IF a.total_transactions > 100 THEN 5 ELSE 0)

\* CurrencyScore that adds 1 and not 2 for every record of a currency
\* category
CurrencyScoreUnitWeight(a) ==
    (IF a.currency_operations > 5 THEN 15
     ELSE IF a.currency_operations > 2 THEN a.currency_operations * 3 ELSE 0)
    + CategoryBonus(a.categories, currency_categories, 1)

\* CurrencyScore whose two currency tiers add up instead of excluding
\* each other
CurrencyScoreAdditive(a) ==
    (IF a.currency_operations > 5 THEN 15 ELSE 0)
    + (IF a.currency_operations > 2 THEN a.currency_operations * 3 ELSE 0)
    + CategoryBonus(a.categories, currency_categories, 2)

CurrencyScore(a) ==
    (IF a.currency_operations > 5 THEN 15
     ELSE IF a.currency_operations > 2 THEN a.currency_operations * 3 ELSE 0)
    + CategoryBonus(a.categories, currency_categories, 2)

\* DepositsScore whose balance tiers add up instead of excluding each other
DepositsScoreAdditive(a) ==
    (IF Gt(a.avg_balance, 100000) /\ LtTenths(a.outflows_vs_inflows, 8) THEN 12
     ELSE 0)
    + (IF Gt(a.avg_balance, 50000) /\ LtTenths(a.outflows_vs_inflows, 10) THEN 8
       ELSE 0)
    + (IF Gt(a.avg_balance, 30000) THEN 4 ELSE 0)
    + (IF a.total_transactions > 80 /\ LtTenths(a.outflows_vs_inflows, 12)
       THEN 5 ELSE 0)

DepositsScore(a) ==
    (IF Gt(a.avg_balance, 100000) /\ LtTenths(a.outflows_vs_inflows, 8) THEN 12
     ELSE IF Gt(a.avg_balance, 50000) /\ LtTenths(a.outflows_vs_inflows, 10) THEN 8
     ELSE IF Gt(a.avg_balance, 30000) THEN 4 ELSE 0)
    + (IF a.total_transactions > 80 /\ LtTenths(a.outflows_vs_inflows, 12)
       THEN 5 ELSE 0)

\* InvestmentsScore with the balance comparisons of its tiers reversed
InvestmentsScoreReversed(a) ==
    (IF Lt(a.avg_balance, 300000) THEN 15
     ELSE IF Lt(a.avg_balance, 150000) THEN 8 ELSE 0)
    + (IF Gt(a.avg_balance, 100000) /\ LtTenths(a.outflows_vs_inflows, 6)
       THEN 10 ELSE 0)
    + (IF a.total_transactions > 100 /\ LtTenths(a.outflows_vs_inflows, 10)
       THEN 5 ELSE 0)

InvestmentsScore(a) ==
    (IF Gt(a.avg_balance, 300000) THEN 15
     ELSE IF Gt(a.avg_balance, 150000) THEN 8 ELSE 0)
    + (IF Gt(a.avg_balance, 100000) /\ LtTenths(a.outflows_vs_inflows, 6)
       THEN 10 ELSE 0)
    + (IF a.total_transactions > 100 /\ LtTenths(a.outflows_vs_inflows, 10)
       THEN 5 ELSE 0)

\* LoanScore without the low-balance bonus
LoanScoreNoBalanceBonus(a) ==
    (IF GtTenths(a.outflows_vs_inflows, 20) THEN 15
     ELSE IF GtTenths(a.outflows_vs_inflows, 15) THEN 10
     ELSE IF GtTenths(a.outflows_vs_inflows, 12) THEN 5 ELSE 0)
    + (IF a.total_transactions > 100 /\ GtTenths(a.outflows_vs_inflows, 13)
       THEN 8 ELSE 0)

LoanScore(a) ==
    (IF GtTenths(a.outflows_vs_inflows, 20) THEN 15
     ELSE IF GtTenths(a.outflows_vs_inflows, 15) THEN 10
     ELSE IF GtTenths(a.outflows_vs_inflows, 12) THEN 5 ELSE 0)
    + (IF a.total_transactions > 100 /\ GtTenths(a.outflows_vs_inflows, 13)
       THEN 8 ELSE 0)
    + (IF Lt(a.avg_balance, 50000) /\ GtTenths(a.outflows_vs_inflows, 15)
       THEN 6 ELSE 0)

\* the `scores` dict once every rule has run
Scores(a) ==
    (TravelCard :> TravelScore(a)) @@ (PremiumCard :> PremiumScore(a))
    @@ (CreditCard :> CreditScore(a)) @@ (CurrencyExchange :> CurrencyScore(a))
    @@ (DepositAccum :> DepositsScore(a)) @@ (DepositSavings :> DepositsScore(a))
    @@ (Investments :> InvestmentsScore(a)) @@ (CashLoan :> LoanScore(a))

----------------------------------------------------------------------------
(* determine_best_product: the selection policy *)

\* max(scores, key=scores.get): the first key, in insertion order, that
\* holds the largest value
MaxKey(sc) ==
    LET i == CHOOSE i \in 1..Len(ProductCatalog) :
                 /\ \A j \in 1..Len(ProductCatalog) :
                        sc[ProductCatalog[j]] <= sc[ProductCatalog[i]]
                 /\ \A j \in 1..(i - 1) :
                        sc[ProductCatalog[j]] < sc[ProductCatalog[i]]
    IN ProductCatalog[i]

\* InsertDesc that puts item in front of the entries of equal score
InsertDescUnstable(sorted, item) ==
    LET k == Cardinality({i \in 1..Len(sorted) : sorted[i][2] > item[2]})
    IN SubSeq(sorted, 1, k) \o <<item>> \o SubSeq(sorted, k + 1, Len(sorted))

\* one step of the stable descending sort: item goes behind every entry
\* whose score is not smaller
InsertDesc(sorted, item) ==
    LET k == Cardinality({i \in 1..Len(sorted) : sorted[i][2] >= item[2]})
    IN SubSeq(sorted, 1, k) \o <<item>> \o SubSeq(sorted, k + 1, Len(sorted))

RECURSIVE SortPrefix(_, _)
SortPrefix(sc, n) ==
    IF n = 0 THEN <<>>
    ELSE InsertDesc(SortPrefix(sc, n - 1),
                    <<ProductCatalog[n], sc[ProductCatalog[n]]>>)

\* sorted(scores.items(), key=lambda x: x[1], reverse=True)
SortedScores(sc) == SortPrefix(sc, Len(ProductCatalog))

\* Top4 with the slice off by one: sorted_scores[1:5]
Top4Shifted(sorted_scores) ==
    [i \in 1..(IF Len(sorted_scores) < 5 THEN Len(sorted_scores) - 1 ELSE 4)
        |-> sorted_scores[i + 1][1]]

\* [item[0] for item in sorted_scores[:4]]
Top4(sorted_scores) ==
    [i \in 1..(IF Len(sorted_scores) < 4 THEN Len(sorted_scores) ELSE 4)
        |-> sorted_scores[i][1]]

\* LowScore with the threshold off by one
LowScoreBelow3(sc) == sc[MaxKey(sc)] < 3

\* max_score < 2
LowScore(sc) == sc[MaxKey(sc)] < 2

\* NearTie that also takes a gap of exactly 3
NearTieInclusive(sorted_scores) ==
    Len(sorted_scores) > 1 /\ sorted_scores[1][2] - sorted_scores[2][2] <= 3

\* sorted_scores[0][1] - sorted_scores[1][1] < 3
NearTie(sorted_scores) ==
    Len(sorted_scores) > 1 /\ sorted_scores[1][2] - sorted_scores[2][2] < 3

\* PickSecond that also takes a draw of exactly 0.3
PickSecondInclusive(u) == u <= 30

\* random.random() < 0.3, the draw given in hundredths
PickSecond(u) == u < 30

\* the dict `scores` before any rule has run, and before it exists
NoScores == <<>>

\* lines 345-363: the winner and the Top-4 from the finished `scores`;
\* u is the value random.random() returns if it is called
SelectProduct(scores_, u) ==
    LET best_product == MaxKey(scores_)
        sorted_scores == SortedScores(scores_)
    IN IF LowScore(scores_)
       THEN [result |-> <<DefaultProduct, DefaultTop4>>, draws |-> 0]
       ELSE IF NearTie(sorted_scores)
       THEN [result |-> <<IF PickSecond(u) THEN sorted_scores[2][1]
                          ELSE best_product,
                          Top4(sorted_scores)>>,
             draws |-> 1]
       ELSE [result |-> <<best_product, Top4(sorted_scores)>>, draws |-> 0]

\* determine_best_product(analysis): the tuple it returns, the `scores` it
\* built and the number of random.random() calls it made
determine_best_product(a, u) ==
    IF IsEmpty(a)
    THEN [result |-> <<DefaultProduct, DefaultTop4>>, scores |-> NoScores,
          draws |-> 0]
    ELSE LET Selected(sc, sel) ==
                 [result |-> sel.result, scores |-> sc, draws |-> sel.draws]
             Scored(sc) == Selected(sc, SelectProduct(sc, u))
         IN Scored(Scores(a))

----------------------------------------------------------------------------
(* Feature records handed to determine_best_product *)

NoTable == [columns |-> {}, rows |-> <<>>]
\* self.transactions = None
None == [loaded |-> FALSE]
DefaultPath == "project444/"
HiddenPath == "hidden_test/"
NoCaller == "-"
\* __init__ and no call of the batch methods yet
NoBatchCall ==
    /\ data_path = DefaultPath
    /\ original_transactions = None
    /\ caller = NoCaller
    /\ runs = 0
NoClient == "-"
NoResult == <<>>
NoDraw == -1

\* values random.random() can return, in hundredths
RandomValues == {10, 30}

BalanceValues ==
    {Num(0), Num(40000), Num(60000), Num(120000), Num(160000), Num(350000),
     NaN}

\* Add(7/10, 1/10) is the float just below 8/10, the ratio of a client who
\* spent 0.7 and 0.1 and received nothing
RatioValues ==
    {Frac(3, 10), Add(Frac(7, 10), Frac(1, 10)), Frac(9, 10), Frac(11, 10),
     Frac(5, 4), Frac(7, 5), Frac(8, 5), Frac(5, 2)}

TransactionCounts == {30, 81, 101}
CurrencyHits == {0, 3, 6}
OnlineHits == {0, 4}
KeywordCounts(max) == {0, 1, max}
PlainCounts == {0, MaxPlain}

\* the categories dict with the given counts (0: the label is absent)
Histogram(taxi, cafe, usd, plain) ==
    LET labels == (IF taxi > 0 THEN {LabelTaxi} ELSE {})
                  \cup (IF cafe > 0 THEN {LabelCafe} ELSE {})
                  \cup (IF usd > 0 THEN {LabelUsd} ELSE {})
                  \cup {PlainLabel(k) : k \in 1..plain}
    IN [c \in labels |->
           IF c = LabelTaxi THEN taxi
           ELSE IF c = LabelCafe THEN cafe
           ELSE IF c = LabelUsd THEN usd
           ELSE 1]

HistTotal(h) == SumOver(DOMAIN h, h)

FeatureRecords ==
    {[client_code |-> "c1",
      total_transactions |-> n,
      avg_balance |-> b,
      total_spending |-> Num(0),
      categories |-> Histogram(t, c, u, p),
      currency_operations |-> cur,
      online_services |-> onl,
      regular_loans |-> 0,
      outflows_vs_inflows |-> r] :
        n \in TransactionCounts, b \in BalanceValues, r \in RatioValues,
        cur \in CurrencyHits, onl \in OnlineHits,
        t \in KeywordCounts(MaxCount), c \in {0, 1}, u \in KeywordCounts(MaxCount),
        p \in PlainCounts}

----------------------------------------------------------------------------
(* The caller of determine_best_product *)

DetermineBestProduct ==
    /\ pc = "analyzed"
    /\ \E u \in RandomValues :
          LET Returned(out) ==
                  /\ result' = out.result
                  /\ scores' = out.scores
                  /\ rngCalls' = rngCalls + out.draws
                  /\ draw' = IF out.draws = 1 THEN u ELSE NoDraw
          IN Returned(determine_best_product(analysis, u))
    /\ pc' = "done"
    /\ UNCHANGED <<transactions, client, analysis,
                   unique_clients, position, results, lifecycle>>

\* determine_best_product called on a feature record
InitScoring ==
    /\ transactions = NoTable
    /\ client = NoClient
    /\ analysis \in FeatureRecords
    /\ HistTotal(analysis.categories) <= analysis.total_transactions
    /\ scores = NoScores
    /\ result = NoResult
    /\ rngCalls = 0
    /\ draw = NoDraw
    /\ pc = "analyzed"
    /\ unique_clients = <<>>
    /\ position = 0
    /\ results = <<>>
    /\ NoBatchCall

NextScoring == DetermineBestProduct

SpecScoring == InitScoring /\ [][NextScoring]_vars

----------------------------------------------------------------------------
(* Transaction tables *)

MaxRows == 2        \* largest number of rows of the table

\* "FX_BUY usd Доллар"
DescSpend ==
    <<70, 88, 95, 66, 85, 89, 32, 117, 115, 100, 32,
      1044, 1086, 1083, 1083, 1072, 1088>>
\* "Online подписка онлайн subscription"
DescIncome ==
    <<79, 110, 108, 105, 110, 101, 32,
      1087, 1086, 1076, 1087, 1080, 1089, 1082, 1072, 32,
      1086, 1085, 1083, 1072, 1081, 1085, 32,
      115, 117, 98, 115, 99, 114, 105, 112, 116, 105, 111, 110>>
\* "EUR евро fx_sell online"
DescOther ==
    <<69, 85, 82, 32, 1077, 1074, 1088, 1086, 32,
      102, 120, 95, 115, 101, 108, 108, 32, 111, 110, 108, 105, 110, 101>>

ClientIds == {1, 2}
ClientArgs == {1, 3}
\* amounts: -5, -2.4, -0.7, -0.1, 0.5, 3 and a cell that is not a number
AmountValues ==
    {Num(0 - 5), Frac(0 - 24, 10), Frac(0 - 7, 10), Frac(0 - 1, 10),
     Frac(1, 2), Num(3), NaN}
\* the amounts of the rows of client 2, which the analysis of client 1 leaves out
OtherAmounts == {Num(0 - 5)}
BalanceCells == {Num(40000), Num(120000), NaN}
\* the balances of the tables that also have amounts
BalanceCellsWithAmounts == {Num(120000), NaN}

ColumnSets ==
    {{"client_code", "amount", "balance", "category", "description"},
     {"client_id", "amount", "category", "description"},
     {"client_code", "balance", "category"},
     {"client_code", "balance"}}

\* a row; its texts go with the sign of the amount
SampleRow(id, amount, balance) ==
    [id |-> id, amount |-> amount, balance |-> balance,
     category |-> IF Lt(amount, 0) THEN LabelTaxi
                  ELSE IF Gt(amount, 0) THEN PlainLabel(1) ELSE LabelUsd,
     description |-> IF Lt(amount, 0) THEN DescSpend
                     ELSE IF Gt(amount, 0) THEN DescIncome ELSE DescOther]

\* the rows of a table with these columns; a cell of a column the table
\* does not have is NaN
RowsFor(columns) ==
    LET Amounts(id) == IF "amount" \notin columns THEN {NaN}
                       ELSE IF id = 1 THEN AmountValues ELSE OtherAmounts
        balances == IF "balance" \notin columns THEN {NaN}
                    ELSE IF "amount" \in columns THEN BalanceCellsWithAmounts
                    ELSE BalanceCells
    IN UNION {{SampleRow(id, amount, balance) :
                  amount \in Amounts(id), balance \in balances} :
              id \in ClientIds}

Tables ==
    UNION {{[columns |-> cols, rows |-> rows] :
               rows \in UNION {[1..n -> RowsFor(cols)] : n \in 0..MaxRows}} :
           cols \in ColumnSets}

----------------------------------------------------------------------------
(* analyze_client_behavior followed by determine_best_product, as in the
   loop body of process_all_clients *)

\* a raised error leaves the caller: nothing is assigned
AnalyzeClientBehavior ==
    /\ pc = "start"
    /\ LET Returned(out) ==
               IF Raised(out)
               THEN /\ pc' = "raised"
                    /\ UNCHANGED analysis
               ELSE /\ pc' = "analyzed"
                    /\ analysis' = out
       IN Returned(analyze_client_behavior(transactions, client))
    /\ UNCHANGED <<transactions, client, scores, result, rngCalls, draw,
                   unique_clients, position, results, lifecycle>>

Init ==
    /\ transactions \in Tables
    /\ client \in ClientArgs
    /\ analysis = EmptyAnalysis
    /\ scores = NoScores
    /\ result = NoResult
    /\ rngCalls = 0
    /\ draw = NoDraw
    /\ pc = "start"
    /\ unique_clients = <<>>
    /\ position = 0
    /\ results = <<>>
    /\ NoBatchCall

Next == AnalyzeClientBehavior \/ DetermineBestProduct

Spec == Init /\ [][Next]_vars

----------------------------------------------------------------------------
(* generate_push_notification and validate_push_quality *)

\* len(self.tov_rules[product])
TovLength(product) ==
    CASE product = TravelCard -> 136
      [] product = PremiumCard -> 124
      [] product = CreditCard -> 112
      [] product = CurrencyExchange -> 98
      [] product = DepositAccum -> 106
      [] product = DepositSavings -> 105
      [] product = Investments -> 108
      [] product = CashLoan -> 89

\* the tov_rules texts that hold a digit: all but those of the premium card
\* and of the currency exchange
TovHasDigit(product) == product \notin {PremiumCard, CurrencyExchange}

\* the message returned, named by the product whose tov_rules text it is: a
\* text shorter than 180 is replaced by the literal of the product's branch
\* (the same text, but the accumulation deposit's for both deposits), after
\* analyze_client_behavior is called once more
generate_push_notification(table, client_code, product) ==
    IF TovLength(product) < 180
    THEN LET Personalised(again) ==
                 IF Raised(again) THEN again
                 ELSE IF product \in {DepositAccum, DepositSavings}
                 THEN [text |-> DepositAccum]
                 ELSE [text |-> product]
         IN Personalised(analyze_client_behavior(table, client_code))
    ELSE [text |-> product]

\* the number of '!' in a tov_rules text
TovExclamations(product) == 1

\* the number of characters above U+007F in a tov_rules text
TovWideChars(product) ==
    CASE product = TravelCard -> 105
      [] product = PremiumCard -> 102
      [] product = CreditCard -> 84
      [] product = CurrencyExchange -> 81
      [] product = DepositAccum -> 85
      [] product = DepositSavings -> 88
      [] product = Investments -> 82
      [] product = CashLoan -> 65

\* sum(quality_checks.values()) for a tov_rules text: the length is in
\* 180..220, at most one '!', at most one character above U+007F, a digit
validate_push_quality(text) ==
    (IF 180 <= TovLength(text) /\ TovLength(text) <= 220 THEN 1 ELSE 0)
    + (IF TovExclamations(text) <= 1 THEN 1 ELSE 0)
    + (IF TovWideChars(text) <= 1 THEN 1 ELSE 0)
    + (IF TovHasDigit(text) THEN 1 ELSE 0)

----------------------------------------------------------------------------
(* process_all_clients *)

client_columns == <<"client_code", "client_id", "user_id", "customer_id">>

NoColumn == "None"

\* the first name of client_columns that is a column of the table
ClientColumn(table) ==
    LET found == {k \in 1..Len(client_columns) : client_columns[k] \in table.columns}
    IN IF found = {} THEN NoColumn
       ELSE client_columns[CHOOSE k \in found : \A j \in found : k <= j]

RECURSIVE UniquePrefix(_, _)
\* Series.unique() of the first n values: in order of first appearance
UniquePrefix(values, n) ==
    IF n = 0 THEN <<>>
    ELSE LET before == UniquePrefix(values, n - 1)
         IN IF \E k \in 1..Len(before) : before[k] = values[n] THEN before
            ELSE Append(before, values[n])

Unique(values) == UniquePrefix(values, Len(values))

\* analysis.get(key, default)
Get(a, key, default) == IF key \in DOMAIN a THEN a[key] ELSE default

\* the `result` dict of one client; top4_products keeps the list that
\* '|'.join turns into one text
ResultRecord(client_code, a, best_product, top4_products, push_notification) ==
    [client_code |-> client_code,
     product |-> best_product,
     push_notification |-> push_notification,
     top4_products |-> top4_products,
     push_quality_score |-> validate_push_quality(push_notification),
     total_transactions |-> Get(a, "total_transactions", 0),
     avg_balance |-> Get(a, "avg_balance", Num(0)),
     total_spending |-> Get(a, "total_spending", Num(0)),
     currency_operations |-> Get(a, "currency_operations", 0),
     online_services |-> Get(a, "online_services", 0),
     outflows_vs_inflows |-> Get(a, "outflows_vs_inflows", Num(0))]

\* clean_data on a loaded table: the amount and balance cells are written
\* as text, stripped of every character that is no digit, point, comma or
\* minus sign, and read as numbers; the category and description cells are
\* written as text, stripped and lower-cased; the rows without client
\* identifier are dropped (the tables have no date column)
clean_data(table) ==
    LET \* lines 125-140: the amount columns and the category columns the
        \* table has
        Clean(r) ==
            [col \in DOMAIN r |->
                IF col \in {"amount", "balance"} \cap table.columns
                THEN CleanNumber(r[col])
                ELSE IF col \in {"category", "description"} \cap table.columns
                THEN CleanText(r[col])
                ELSE r[col]]
        \* lines 143-147: the rows without a client identifier go
        Kept(cleaned) ==
            IF ClientColumn(table) = NoColumn THEN cleaned
            ELSE SelectSeq(cleaned, LAMBDA r : r.id # MissingId)
    IN [columns |-> table.columns,
        rows |-> Kept([i \in 1..Len(table.rows) |-> Clean(table.rows[i])])]

MaxRuns == 2        \* most calls of process_all_clients and process_hidden_test

\* the frames read_csv and concat can give: the columns, with source_file
\* added, the client identifiers, and the cells of the amount and balance
\* columns, which are all numbers or, when one of them does not read as a
\* number, all texts
RawLayouts ==
    {[columns |-> {"client_code", "amount", "category", "description"},
      ids |-> {1, 2, MissingId},
      amounts |-> {Frac(0 - 7, 10), Num(3)}, balances |-> {NaN}],
     [columns |-> {"client_code", "amount", "category", "description"},
      ids |-> {1, 2},
      amounts |-> {TextCell(<<8376, 32, 49, 32, 53, 48, 48>>),  \* "₸ 1 500"
                   TextCell(<<45, 48, 44, 55>>),                \* "-0,7"
                   TextCell(<<97, 98, 99>>)},                   \* "abc"
      balances |-> {NaN}],
     [columns |-> {"client_id", "balance", "category"},
      ids |-> {1, 2},
      amounts |-> {NaN}, balances |-> {Num(120000), NaN}],
     [columns |-> {"user_id", "amount", "category", "description"},
      ids |-> {1, 2},
      amounts |-> {Frac(0 - 7, 10)}, balances |-> {NaN}],
     [columns |-> {"customer_id", "balance", "category"},
      ids |-> {1, 2},
      amounts |-> {NaN},
      balances |-> {TextCell(<<49, 50, 48, 32, 48, 48, 48, 32, 8376>>)}],  \* "120 000 ₸"
     [columns |-> {"amount", "category"},
      ids |-> {0},
      amounts |-> {Num(3)}, balances |-> {NaN}]}

\* a row as read; its texts go with the client
RawRow(id, amount, balance) ==
    [id |-> id, amount |-> amount, balance |-> balance,
     category |-> IF id = 1 THEN <<32, 84, 65, 88, 304, 32>>     \* " TAXİ "
                  ELSE IF id = 2 THEN MissingText ELSE LabelUsd,
     description |-> IF id = 1 THEN DescSpend
                     ELSE IF id = 2 THEN MissingText ELSE DescOther,
     source_file |-> "transactions.csv"]

RawTables ==
    LET RowsOf(layout) ==
            {RawRow(id, amount, balance) :
                id \in layout.ids,
                amount \in layout.amounts,
                balance \in layout.balances}
    IN UNION {{[columns |-> layout.columns \cup {"source_file"}, rows |-> rows] :
                  rows \in UNION {[1..n -> RowsOf(layout)] : n \in 0..MaxRows}} :
              layout \in RawLayouts}

MaxHiddenRows == 1  \* largest number of rows of the hidden folder's frame

\* the frames of the hidden folder
HiddenTables == {table \in RawTables : Len(table.rows) <= MaxHiddenRows}

\* clean_data, evaluated once for each frame of RawTables
CleanMemo == [table \in RawTables |-> clean_data(table)]
Cleaned(table) ==
    LET Known(memo) ==
            IF table \in DOMAIN memo THEN memo[table] ELSE clean_data(table)
    IN Known(CleanMemo)

\* no call is running: none was made yet, or the last one has returned
Idle == pc \in {"idle", "returned"}

\* the locals of the calls that have returned are gone
NoFrame ==
    /\ client' = NoClient
    /\ analysis' = EmptyAnalysis
    /\ scores' = NoScores
    /\ result' = NoResult
    /\ draw' = NoDraw
    /\ position' = 0
    /\ results' = <<>>

\* load_data: no file is found or none can be read, and False is returned
\* with the table left as it is; or self.transactions becomes the frame read
LoadData ==
    /\ Idle
    /\ \E outcome \in {None} \cup RawTables :
          transactions' = IF outcome = None THEN transactions ELSE outcome
    /\ pc' = "idle"
    /\ caller' = NoCaller
    /\ NoFrame
    /\ unique_clients' = <<>>
    /\ UNCHANGED <<rngCalls, data_path, original_transactions, runs>>

\* clean_data: nothing without a table (lines 112-114)
CleanData ==
    /\ Idle
    /\ transactions' = IF transactions = None THEN None
                       ELSE Cleaned(transactions)
    /\ pc' = "idle"
    /\ caller' = NoCaller
    /\ NoFrame
    /\ unique_clients' = <<>>
    /\ UNCHANGED <<rngCalls, data_path, original_transactions, runs>>

\* lines 404-423: without a table, or without a client column in it, the
\* empty frame is returned; else the loop starts over the distinct clients
ProcessAllClients ==
    /\ Idle
    /\ runs < MaxRuns
    /\ runs' = runs + 1
    /\ caller' = "process_all_clients"
    /\ NoFrame
    /\ IF transactions = None \/ ClientColumn(transactions) = NoColumn
       THEN /\ pc' = "returned"
            /\ unique_clients' = <<>>
       ELSE /\ unique_clients' = Unique(Column(transactions.rows, "id"))
            /\ pc' = "loop"
    /\ UNCHANGED <<transactions, rngCalls, data_path, original_transactions>>

\* lines 461-481: process_hidden_test up to the loop of process_all_clients.
\* Without the folder the empty frame is returned; a failed load_data puts
\* the table back and leaves data_path on the hidden folder; else the hidden
\* table is cleaned and processed in place of the table
ProcessHiddenTest ==
    /\ Idle
    /\ runs < MaxRuns
    /\ runs' = runs + 1
    /\ caller' = "process_hidden_test"
    /\ NoFrame
    /\ \E exists \in BOOLEAN, outcome \in {None} \cup HiddenTables :
          IF ~exists
          THEN /\ pc' = "returned"
               /\ unique_clients' = <<>>
               /\ UNCHANGED <<transactions, data_path, original_transactions>>
          ELSE IF outcome = None
          THEN /\ pc' = "returned"
               /\ unique_clients' = <<>>
               /\ data_path' = HiddenPath
               /\ UNCHANGED <<transactions, original_transactions>>
          ELSE LET Process(hidden) ==
                       IF ClientColumn(hidden) = NoColumn
                       THEN /\ pc' = "returned"
                            /\ unique_clients' = <<>>
                            /\ data_path' = DefaultPath
                            /\ UNCHANGED <<transactions, original_transactions>>
                       ELSE /\ original_transactions' = transactions
                            /\ transactions' = hidden
                            /\ data_path' = HiddenPath
                            /\ unique_clients' = Unique(Column(hidden.rows, "id"))
                            /\ pc' = "loop"
               IN Process(Cleaned(outcome))
    /\ UNCHANGED rngCalls

\* line 425: the loop takes the next client, or ends and line 457 returns;
\* process_hidden_test then puts the table and the path back (lines 484-485)
NextClient ==
    /\ pc = "loop"
    /\ IF position < Len(unique_clients)
       THEN /\ position' = position + 1
            /\ client' = unique_clients[position + 1]
            /\ pc' = "start"
            /\ UNCHANGED <<transactions, data_path, original_transactions>>
       ELSE /\ pc' = "returned"
            /\ UNCHANGED <<position, client>>
            /\ IF caller = "process_hidden_test"
               THEN /\ transactions' = original_transactions
                    /\ data_path' = DefaultPath
                    /\ original_transactions' = None
               ELSE UNCHANGED <<transactions, data_path, original_transactions>>
    /\ UNCHANGED <<analysis, scores, result, rngCalls, draw, unique_clients,
                   results, caller, runs>>

\* lines 435-455: the push notification, its quality and the result record
AppendResult ==
    /\ pc = "done"
    /\ LET Returned(push) ==
               IF Raised(push)
               THEN /\ pc' = "raised"
                    /\ UNCHANGED results
               ELSE /\ results' = Append(results,
                            ResultRecord(client, analysis, result[1], result[2],
                                         push.text))
                    /\ pc' = "loop"
       IN Returned(generate_push_notification(transactions, client, result[1]))
    /\ UNCHANGED <<transactions, client, analysis, scores, result, rngCalls,
                   draw, unique_clients, position, lifecycle>>

\* the state after __init__
InitBatch ==
    /\ transactions = None
    /\ client = NoClient
    /\ analysis = EmptyAnalysis
    /\ scores = NoScores
    /\ result = NoResult
    /\ rngCalls = 0
    /\ draw = NoDraw
    /\ pc = "idle"
    /\ unique_clients = <<>>
    /\ position = 0
    /\ results = <<>>
    /\ NoBatchCall

NextBatch ==
    \/ LoadData
    \/ CleanData
    \/ ProcessAllClients
    \/ ProcessHiddenTest
    \/ NextClient
    \/ AnalyzeClientBehavior
    \/ DetermineBestProduct
    \/ AppendResult

SpecBatch == InitBatch /\ [][NextBatch]_vars

----------------------------------------------------------------------------
(* Properties *)

\* x and y are the same float, or both NaN
SameNumber(x, y) == x = y

Done == pc = "done"
Analyzed == pc \in {"analyzed", "done"}

\* the largest value of a scores dict
MaxScore(sc) == CHOOSE m \in {sc[p] : p \in Products} : \A p \in Products : sc[p] <= m

\* p is ranked before q: higher score, or equal score and declared earlier
RankedBefore(sc, p, q) ==
    \/ sc[p] > sc[q]
    \/ sc[p] = sc[q] /\ CatalogIndex(p) < CatalogIndex(q)

RankedFirst(sc) ==
    CHOOSE p \in Products : \A q \in Products \ {p} : RankedBefore(sc, p, q)

RankedSecond(sc) ==
    CHOOSE p \in Products \ {RankedFirst(sc)} :
        \A q \in Products \ {RankedFirst(sc), p} : RankedBefore(sc, p, q)

TopGap(sc) == sc[RankedFirst(sc)] - sc[RankedSecond(sc)]

NoRowOfClient == \A i \in 1..Len(transactions.rows) : transactions.rows[i].id # client

\* C1: a client that matches no row gets the empty features, and from them
\* the default product 'Депозит накопительный' with the fixed shortlist
\* [Депозит накопительный, Депозит сберегательный, Инвестиции, Кредитная
\* карта]; no scores are computed and random.random() is never called, for
\* every value the random source would have returned.
C1_NoDataDefault ==
    /\ (Analyzed /\ NoRowOfClient) => IsEmpty(analysis)
    /\ (Done /\ NoRowOfClient) =>
          /\ result = <<DepositAccum,
                        <<DepositAccum, DepositSavings, Investments, CreditCard>>>>
          /\ scores = NoScores
          /\ rngCalls = 0
          /\ draw = NoDraw

C1_Witness ==
    /\ Done
    /\ Len(transactions.rows) = MaxRows
    /\ NoRowOfClient
    /\ IsEmpty(analysis)
    /\ result[1] = DepositAccum

\* C2: for a non-empty feature record, a maximum score below 2 returns the
\* default deposit product and the default shortlist without any random
\* draw; with a maximum of 2 or more the fallback is not taken: the shortlist
\* starts with a product of maximum score and the winner is one of its first
\* two entries.
C2_LowConfidenceFallback ==
    (Done /\ ~IsEmpty(analysis)) =>
        /\ MaxScore(scores) < 2 =>
              /\ result = <<DepositAccum,
                            <<DepositAccum, DepositSavings, Investments, CreditCard>>>>
              /\ rngCalls = 0
              /\ draw = NoDraw
        /\ MaxScore(scores) >= 2 =>
              /\ scores[result[2][1]] = MaxScore(scores)
              /\ result[1] \in {result[2][1], result[2][2]}

C2_Witness ==
    /\ Done
    /\ ~IsEmpty(analysis)
    /\ DOMAIN analysis.categories # {}
    /\ MaxScore(scores) < 2
    /\ result[2] = DefaultTop4
    /\ RankedFirst(scores) # result[2][1]

\* C3: when the fallback is not taken, random.random() is called exactly
\* once if the gap between the two top-ranked scores is below 3 and not at
\* all otherwise; the winner is the second-ranked product exactly when the
\* gap is below 3 and the draw is below 0.3, and the top-ranked product in
\* every other case.
C3_NearTieOverride ==
    (Done /\ ~IsEmpty(analysis) /\ MaxScore(scores) >= 2) =>
        IF TopGap(scores) < 3
        THEN /\ rngCalls = 1
             /\ draw \in RandomValues
             /\ result[1] = IF draw < 30 THEN RankedSecond(scores)
                            ELSE RankedFirst(scores)
        ELSE /\ rngCalls = 0
             /\ draw = NoDraw
             /\ result[1] = RankedFirst(scores)

C3_Witness ==
    /\ Done
    /\ ~IsEmpty(analysis)
    /\ MaxScore(scores) >= 2
    /\ TopGap(scores) = 2
    /\ draw < 30
    /\ rngCalls = 1
    /\ result[1] = RankedSecond(scores)

\* with a gap of exactly 2 the top-ranked product is returned as well
C3_WitnessKeepsFirst ==
    /\ Done
    /\ ~IsEmpty(analysis)
    /\ MaxScore(scores) >= 2
    /\ TopGap(scores) = 2
    /\ draw >= 30
    /\ result[1] = RankedFirst(scores)

\* C4: when the fallback is not taken, the shortlist is the first 4 entries
\* of the ranking of all 8 products by descending score, equal scores in
\* catalog declaration order; it is determined by the scores alone, so it is
\* the same whatever the random draw and whether or not the override fired.
C4_ShortlistIsRankingPrefix ==
    (Done /\ ~IsEmpty(analysis) /\ MaxScore(scores) >= 2) =>
        LET top4 == result[2]
            listed == {top4[i] : i \in 1..Len(top4)}
        IN /\ Len(top4) = 4
           /\ \A i, j \in 1..4 : i < j => RankedBefore(scores, top4[i], top4[j])
           /\ \A p \in Products \ listed : RankedBefore(scores, top4[4], p)

C4_Witness ==
    /\ Done
    /\ ~IsEmpty(analysis)
    /\ MaxScore(scores) >= 2
    /\ draw # NoDraw /\ draw < 30
    /\ result[1] = result[2][2]
    /\ scores[result[2][1]] = scores[result[2][2]]
    /\ scores[result[2][3]] = scores[result[2][4]]

ScenarioA ==
    /\ SameNumber(analysis.avg_balance, Num(350000))
    /\ SameNumber(analysis.outflows_vs_inflows, Frac(3, 10))
    /\ analysis.currency_operations = 0

\* C5 as claimed: in scenario A (mean balance 350,000, ratio 0.3, no
\* currency hit) the Investments score is at least 15 and strictly higher
\* than the Travel, Currency-exchange and Cash-loan scores.
C5_ScenarioA_AsClaimed ==
    (Done /\ ~IsEmpty(analysis) /\ ScenarioA) =>
        /\ scores[Investments] >= 15
        /\ scores[Investments] > scores[TravelCard]
        /\ scores[Investments] > scores[CurrencyExchange]
        /\ scores[Investments] > scores[CashLoan]

\* C5 amended: in scenario A the Investments score is at least 15 and
\* strictly higher than the Cash-loan score; it is strictly higher than the
\* Travel score when no category label contains a travel keyword, and than
\* the Currency-exchange score when none contains a currency keyword.
C5_ScenarioA ==
    (Done /\ ~IsEmpty(analysis) /\ ScenarioA) =>
        /\ scores[Investments] >= 15
        /\ scores[Investments] > scores[CashLoan]
        /\ (\A c \in DOMAIN analysis.categories : ~ContainsAny(c, travel_keywords))
              => scores[Investments] > scores[TravelCard]
        /\ (\A c \in DOMAIN analysis.categories : ~ContainsAny(c, currency_categories))
              => scores[Investments] > scores[CurrencyExchange]

C5_Witness ==
    /\ Done
    /\ ~IsEmpty(analysis)
    /\ ScenarioA
    /\ DOMAIN analysis.categories = {LabelCafe, PlainLabel(1), PlainLabel(2), PlainLabel(3)}
    /\ scores[Investments] = 25
    /\ scores[TravelCard] = 0

ScenarioC ==
    /\ SameNumber(analysis.outflows_vs_inflows, Frac(5, 2))
    /\ SameNumber(analysis.avg_balance, Num(0))
    /\ DOMAIN analysis.categories = {}
    /\ analysis.currency_operations = 0
    /\ analysis.online_services = 0
    /\ analysis.total_transactions <= 100

\* C6 as claimed: in scenario C (ratio 2.5, zero mean balance, no category,
\* no keyword hit, at most 100 transactions) the Cash-loan score is exactly
\* 15.
C6_ScenarioC_AsClaimed ==
    (Done /\ ~IsEmpty(analysis) /\ ScenarioC) => scores[CashLoan] = 15

\* C6 amended: in scenario C the Cash-loan score is exactly 21: the 15 of
\* the ratio tier plus the +6 low-balance bonus (mean balance 0 < 50,000 and
\* ratio > 1.5); only the +8 transaction-count bonus is not added.
C6_ScenarioC ==
    (Done /\ ~IsEmpty(analysis) /\ ScenarioC) => scores[CashLoan] = 21

C6_Witness ==
    /\ Done
    /\ ~IsEmpty(analysis)
    /\ ScenarioC
    /\ scores[CashLoan] = 21
    /\ result[1] = CashLoan

\* the count of the only label of CategoryLabels that contains a currency
\* keyword, the count of the only one that contains a travel keyword
UsdCount == IF LabelUsd \in DOMAIN analysis.categories
            THEN analysis.categories[LabelUsd] ELSE 0
TaxiCount == IF LabelTaxi \in DOMAIN analysis.categories
             THEN analysis.categories[LabelTaxi] ELSE 0

\* C7: with 6 currency-keyword hits the Currency-exchange score is 15 plus
\* 2 x count for every category whose label contains a currency keyword
\* (15 exactly when there is none), and the Travel score is at least
\* 6*4 + 10 = 34.
C7_ScenarioB ==
    (Done /\ ~IsEmpty(analysis) /\ analysis.currency_operations = 6) =>
        /\ scores[CurrencyExchange] = 15 + 2 * UsdCount
        /\ scores[TravelCard] >= 34
        /\ scores[TravelCard] = 34 + 3 * TaxiCount

C7_Witness ==
    /\ Done
    /\ ~IsEmpty(analysis)
    /\ analysis.currency_operations = 6
    /\ UsdCount > 1
    /\ scores[CurrencyExchange] > 15
    /\ scores[TravelCard] = 34

\* C8: the two deposit products have the same score: one tier value (12 if
\* balance > 100,000 and ratio < 0.8; else 8 if balance > 50,000 and
\* ratio < 1.0; else 4 if balance > 30,000; else 0) plus 5 if transaction
\* count > 80 and ratio < 1.2; so it is one of 0, 4, 5, 8, 9, 12, 13, 17.
C8_DepositScore ==
    (Done /\ ~IsEmpty(analysis)) =>
        LET b == analysis.avg_balance
            r == analysis.outflows_vs_inflows
            tier == IF Gt(b, 100000) /\ LtTenths(r, 8) THEN 12
                    ELSE IF Gt(b, 50000) /\ LtTenths(r, 10) THEN 8
                    ELSE IF Gt(b, 30000) THEN 4
                    ELSE 0
            bonus == IF analysis.total_transactions > 80 /\ LtTenths(r, 12)
                     THEN 5 ELSE 0
        IN /\ scores[DepositAccum] = scores[DepositSavings]
           /\ scores[DepositAccum] = tier + bonus
           /\ scores[DepositAccum] \in {0, 4, 5, 8, 9, 12, 13, 17}

C8_Witness ==
    /\ Done
    /\ ~IsEmpty(analysis)
    /\ scores[DepositAccum] = 17
    /\ scores[DepositSavings] = 17

\* a ratio one float below the literal 0.8 takes the tier of 12
C8_WitnessRounded ==
    /\ Done
    /\ ~IsEmpty(analysis)
    /\ analysis.outflows_vs_inflows = Add(Frac(7, 10), Frac(1, 10))
    /\ analysis.outflows_vs_inflows # Frac(8, 10)
    /\ Gt(analysis.avg_balance, 100000)
    /\ analysis.total_transactions <= 80
    /\ scores[DepositAccum] = 12

\* the rows of the client, and among them those with a valid amount or
\* balance
RowsOfClient == {i \in 1..Len(transactions.rows) : transactions.rows[i].id = client}
ValidAmountRows == {i \in RowsOfClient : ~IsNaN(transactions.rows[i].amount)}
ValidBalanceRows == {i \in RowsOfClient : ~IsNaN(transactions.rows[i].balance)}
OutflowRows == {i \in ValidAmountRows : transactions.rows[i].amount.sign = 1}
InflowRows ==
    {i \in ValidAmountRows : /\ transactions.rows[i].amount.sign = 0
                             /\ ~IsZero(transactions.rows[i].amount)}

\* the float sum, in row order, of the magnitudes of a field over the rows S
RowSum(S, field) ==
    LET upTo[n \in 0..Len(transactions.rows)] ==
            IF n = 0 THEN Zero
            ELSE IF n \in S
            THEN Add(upTo[n - 1], Abs(transactions.rows[n][field]))
            ELSE upTo[n - 1]
    IN upTo[Len(transactions.rows)]

\* the client's total outflow and inflow and the sum of its valid balances,
\* counted row by row
OutSum == RowSum(OutflowRows, "amount")
InSum == RowSum(InflowRows, "amount")
BalanceSum == RowSum(ValidBalanceRows, "balance")

\* ratio = outflow / max(inflow, 1) in float arithmetic
RatioIsOutflowOverFlooredInflow ==
    analysis.outflows_vs_inflows
        = Div(OutSum, IF Less(Num(1), InSum) THEN InSum ELSE Num(1))

\* C9: for a client with at least one row the ratio is (sum of the absolute
\* values of the negative amounts) / max(sum of the positive amounts, 1) and
\* is never negative; with a total inflow of 0 it is the total outflow.
C9_RatioFloor ==
    (Analyzed /\ RowsOfClient # {}) =>
        /\ ~IsEmpty(analysis)
        /\ RatioIsOutflowOverFlooredInflow
        /\ ~IsNaN(analysis.outflows_vs_inflows)
        /\ analysis.outflows_vs_inflows.sign = 0
        /\ IsZero(InSum) => analysis.outflows_vs_inflows = OutSum

C9_Witness ==
    /\ Analyzed
    /\ Cardinality(RowsOfClient) = 2
    /\ IsZero(InSum)
    /\ OutSum = Num(10)
    /\ SameNumber(analysis.outflows_vs_inflows, Num(10))

\* the floor is also taken by an inflow between 0 and 1
C9_WitnessSmallInflow ==
    /\ Analyzed
    /\ InSum = Frac(1, 2)
    /\ OutSum = Num(5)
    /\ SameNumber(analysis.outflows_vs_inflows, Num(5))

\* the sum and the quotient are rounded: outflows of 0.7 and 0.1 over an
\* inflow of 0 give a ratio just below the literal 0.8
C9_WitnessRounded ==
    /\ Analyzed
    /\ IsZero(InSum)
    /\ Cardinality(OutflowRows) = 2
    /\ analysis.outflows_vs_inflows = Add(Frac(7, 10), Frac(1, 10))
    /\ analysis.outflows_vs_inflows # Frac(8, 10)
    /\ LtTenths(analysis.outflows_vs_inflows, 8)

ClientHasNaN ==
    \E i \in RowsOfClient :
        \/ "amount" \in transactions.columns /\ IsNaN(transactions.rows[i].amount)
        \/ "balance" \in transactions.columns /\ IsNaN(transactions.rows[i].balance)

\* C10: NaN amounts and balances of a client are left out of the outflow
\* sum, the inflow sum and the balance mean: the features are those of the
\* valid values alone (the mean divides by the number of valid balances, and
\* is the mean of no value, NaN, when none is valid).
C10_NaNExcluded ==
    (Analyzed /\ RowsOfClient # {} /\ ClientHasNaN) =>
        /\ ~IsEmpty(analysis)
        /\ analysis.total_spending = OutSum
        /\ RatioIsOutflowOverFlooredInflow
        /\ "balance" \in transactions.columns =>
              IF ValidBalanceRows = {} THEN IsNaN(analysis.avg_balance)
              ELSE analysis.avg_balance
                      = Div(BalanceSum, Num(Cardinality(ValidBalanceRows)))

C10_Witness ==
    /\ Analyzed
    /\ transactions.columns = {"client_code", "amount", "balance", "category", "description"}
    /\ Cardinality(RowsOfClient) = 2
    /\ Cardinality(ValidAmountRows) = 1
    /\ Cardinality(ValidBalanceRows) = 1
    /\ OutSum = Num(5)
    /\ SameNumber(analysis.avg_balance, Num(120000))
    /\ SameNumber(analysis.total_spending, Num(5))

\* the client has no balance data: no balance column, or no valid balance
\* in any of its rows
NoBalanceData ==
    \/ "balance" \notin transactions.columns
    \/ ValidBalanceRows = {}

\* C11 as claimed: the mean-balance feature of a client with rows is 0
\* whenever the client has no balance data (the balance column is absent, or
\* present with no valid balance in the client's rows), and it is never the
\* not-a-number value.
C11_ZeroWithoutBalanceData ==
    (Analyzed /\ RowsOfClient # {}) =>
        /\ ~IsNaN(analysis.avg_balance)
        /\ NoBalanceData => SameNumber(analysis.avg_balance, Num(0))

\* the part of C11 the code keeps: without a balance column the feature is 0
C11_ZeroWithoutBalanceColumn ==
    (Analyzed /\ RowsOfClient # {} /\ "balance" \notin transactions.columns) =>
        SameNumber(analysis.avg_balance, Num(0))

\* a balance column whose cells are all NaN for the client: the mean is NaN
C11_AllNaNBalances ==
    /\ Analyzed
    /\ "balance" \in transactions.columns
    /\ Cardinality(RowsOfClient) = 2
    /\ ValidBalanceRows = {}
    /\ IsNaN(analysis.avg_balance)

\* process_all_clients was called on a table and runs, or has run, the loop
\* on it; BatchOver: that call has returned or raised
Processing == caller = "process_all_clients" /\ transactions # None
BatchOver == Processing /\ pc \in {"returned", "raised"}

\* the records of the frame process_all_clients returns; a raised error
\* returns none
Emitted == IF pc = "returned" THEN results ELSE <<>>

\* the distinct client identifiers of the table, and the first row of each
IdsOfTable ==
    IF transactions = None \/ ClientColumn(transactions) = NoColumn THEN {}
    ELSE {transactions.rows[i].id : i \in 1..Len(transactions.rows)}
FirstRow(id) ==
    CHOOSE i \in 1..Len(transactions.rows) :
        /\ transactions.rows[i].id = id
        /\ \A j \in 1..(i - 1) : transactions.rows[j].id # id

\* the records are one per distinct client identifier, in the order in
\* which the identifiers first appear in the table
OnePerClientInFirstSeenOrder(records) ==
    /\ Len(records) = Cardinality(IdsOfTable)
    /\ {records[k].client_code : k \in 1..Len(records)} = IdsOfTable
    /\ \A k, l \in 1..Len(records) :
          k < l => FirstRow(records[k].client_code) < FirstRow(records[l].client_code)

\* while a client is in the loop body, the records are exactly those of the
\* clients before it, and the features, scores and product at hand are its
\* own
OneClientAtATime ==
    pc \in {"start", "analyzed", "done"} =>
        /\ position >= 1
        /\ client = unique_clients[position]
        /\ Len(results) = position - 1
        /\ \A k \in 1..Len(results) : results[k].client_code = unique_clients[k]
        /\ pc \in {"analyzed", "done"} =>
              analysis = analyze_client_behavior(transactions, client)
        /\ pc = "done" => scores = Scores(analysis)

\* C12 as claimed: process_all_clients emits exactly one result per
\* distinct client identifier of the table, in the order in which the
\* identifiers first appear; each client is aggregated, scored and selected
\* before the next one begins.
C12_OnePerClientInOrder ==
    /\ BatchOver => OnePerClientInFirstSeenOrder(Emitted)
    /\ OneClientAtATime

\* the table has no text among the numbers of its amount and balance columns
NumbersOnly ==
    \A i \in 1..Len(transactions.rows) :
        ~IsText(transactions.rows[i].amount) /\ ~IsText(transactions.rows[i].balance)

\* C12 on the tables analyze_client_behavior can read (client column
\* 'client_code' or 'client_id', or no client column at all, and numbers in
\* the number columns); a missing identifier counts as one more client
C12_OnReadableTables ==
    (/\ Processing
     /\ ClientColumn(transactions) \in {"client_code", "client_id", NoColumn}
     /\ NumbersOnly) =>
        /\ BatchOver => (pc = "returned" /\ OnePerClientInFirstSeenOrder(results))
        /\ OneClientAtATime

C12_ReadableWitness ==
    /\ BatchOver
    /\ pc = "returned"
    /\ Len(transactions.rows) = MaxRows
    /\ Len(results) = 2
    /\ results[1].client_code = 2
    /\ results[2].client_code = 1

\* the client whose processing raised an error, if any
FailedClients == IF pc = "raised" THEN {client} ELSE {}

HasResult(id) == \E k \in 1..Len(Emitted) : Emitted[k].client_code = id

\* C13 as claimed: an error raised while one client is aggregated or scored
\* does not abort the batch: when process_all_clients is over, every other
\* client of the table has a result.
C13_FailureDoesNotAbort ==
    BatchOver => \A id \in IdsOfTable \ FailedClients : HasResult(id)

\* the error raised for the first client ends the batch: the second client
\* is never taken by the loop
C13_Aborted ==
    /\ BatchOver
    /\ pc = "raised"
    /\ unique_clients = <<2, 1>>
    /\ client = 2
    /\ position = 1
    /\ results = <<>>

\* the number of rows of the table whose client column holds id
RowCount(id) ==
    Cardinality({i \in 1..Len(transactions.rows) : transactions.rows[i].id = id})

\* C14 as claimed: with a client-identifier column under any of the names
\* client_code, client_id, user_id, customer_id the batch proceeds without
\* failure, and every client's features are aggregated from the rows that
\* match the client on that column; only a table with none of these columns
\* ends at once with the empty result and no client processed.
C14_AnyAliasProceeds ==
    Processing =>
        /\ ClientColumn(transactions) # NoColumn =>
              /\ pc # "raised"
              /\ \A k \in 1..Len(results) :
                    results[k].total_transactions = RowCount(results[k].client_code)
              /\ pc = "returned" => \A id \in IdsOfTable : HasResult(id)
        /\ ClientColumn(transactions) = NoColumn =>
              /\ position = 0
              /\ results = <<>>
              /\ pc = "returned"

\* a table whose client column is customer_id: the first call of
\* analyze_client_behavior raises KeyError
C14_CustomerIdRaises ==
    /\ BatchOver
    /\ pc = "raised"
    /\ ClientColumn(transactions) = "customer_id"
    /\ position = 1
    /\ results = <<>>

\* a table without any client column: the empty result at once
C14_NoColumnWitness ==
    /\ BatchOver
    /\ pc = "returned"
    /\ ClientColumn(transactions) = NoColumn
    /\ Len(transactions.rows) = MaxRows
    /\ position = 0
    /\ results = <<>>

\* the words of a list that some row of the client holds in its
\* description, whatever the case of the letters
WordsPresent(words) ==
    IF "description" \notin transactions.columns THEN {}
    ELSE {j \in 1..Len(words) :
             \E i \in RowsOfClient :
                 Contains(Lower(transactions.rows[i].description), words[j])}

\* C15: every keyword counts at most once: the currency hit count is the
\* number of the 6 currency keywords present in the client's descriptions
\* and is in 0..6, the online hit count the number of the 4 online keywords
\* present and in 0..4; so the credit card never gets the +8 of more than 5
\* online hits, and the currency exchange gets the 15 of more than 5
\* currency hits exactly when all 6 currency keywords are present.
C15_PresenceCounts ==
    (Analyzed /\ RowsOfClient # {}) =>
        /\ ~IsEmpty(analysis)
        /\ analysis.currency_operations = Cardinality(WordsPresent(currency_words))
        /\ analysis.online_services = Cardinality(WordsPresent(online_words))
        /\ analysis.currency_operations \in 0..6
        /\ analysis.online_services \in 0..4
        /\ Done =>
              /\ scores[CreditCard] =
                    3 * analysis.online_services
                    + (IF Cardinality(DOMAIN analysis.categories) > 5 THEN 6
                       ELSE IF Cardinality(DOMAIN analysis.categories) > 3 THEN 3
                       ELSE 0)
                    + (IF analysis.total_transactions > 100 THEN 5 ELSE 0)
              /\ analysis.currency_operations > 5
                    <=> WordsPresent(currency_words) = 1..6
              /\ analysis.currency_operations > 5 =>
                    scores[CurrencyExchange] = 15 + 2 * UsdCount
              /\ analysis.currency_operations <= 5 =>
                    scores[CurrencyExchange] - 2 * UsdCount \in {0, 9, 12, 15}

\* all 6 currency keywords over two rows, one of them in upper case
C15_Witness ==
    /\ Done
    /\ Cardinality(RowsOfClient) = 2
    /\ WordsPresent(currency_words) = 1..6
    /\ analysis.currency_operations = 6
    /\ scores[CurrencyExchange] = 17
    /\ scores[CreditCard] = 3

\* the same keywords in two rows count once: 4 online hits, credit 12
C15_WitnessRepeated ==
    /\ Done
    /\ Cardinality(RowsOfClient) = 2
    /\ \A i \in RowsOfClient : transactions.rows[i].description = DescIncome
    /\ analysis.online_services = 4
    /\ analysis.currency_operations = 0
    /\ scores[CreditCard] = 12

AllScoresZero == \A p \in Products : scores[p] = 0

\* C16: every product's score is a non-negative integer other than 1, so
\* the maximum score is below 2 exactly when all 8 scores are 0: then, and
\* only then, the fallback returns the default product and shortlist
\* without a draw; otherwise the shortlist starts with a product whose
\* score is the maximum, 2 or more.
C16_NoScoreOfOne ==
    (Done /\ ~IsEmpty(analysis)) =>
        /\ \A p \in Products : scores[p] \in Nat /\ scores[p] # 1
        /\ MaxScore(scores) < 2 <=> AllScoresZero
        /\ AllScoresZero =>
              /\ result = <<DepositAccum, DefaultTop4>>
              /\ rngCalls = 0
        /\ ~AllScoresZero =>
              /\ scores[result[2][1]] = MaxScore(scores)
              /\ scores[result[2][1]] >= 2

\* the smallest score above 0: one record of a currency category
C16_Witness ==
    /\ Done
    /\ ~IsEmpty(analysis)
    /\ UsdCount = 1
    /\ scores[CurrencyExchange] = 2
    /\ ~AllScoresZero
    /\ scores[result[2][1]] >= 2

\* all 8 scores are 0 although the client has categories: the fallback
C16_WitnessAllZero ==
    /\ Done
    /\ ~IsEmpty(analysis)
    /\ DOMAIN analysis.categories # {}
    /\ AllScoresZero
    /\ result = <<DepositAccum, DefaultTop4>>

\* C17: on every path of determine_best_product (no data, fallback,
\* ranking with or without the override) the shortlist holds exactly 4
\* products of the catalog, no two of them the same, and the winner is its
\* first or its second entry.
C17_ShortlistAndWinner ==
    Done =>
        /\ Len(result[2]) = 4
        /\ \A i \in 1..4 : result[2][i] \in Products
        /\ \A i, j \in 1..4 : i # j => result[2][i] # result[2][j]
        /\ result[1] \in {result[2][1], result[2][2]}

\* the override path: the winner is the second entry of a ranked shortlist
C17_Witness ==
    /\ Done
    /\ ~IsEmpty(analysis)
    /\ ~AllScoresZero
    /\ draw # NoDraw /\ draw < 30
    /\ result[1] = result[2][2]
    /\ result[2] # DefaultTop4

\* the no-data path
C17_WitnessNoData ==
    /\ Done
    /\ IsEmpty(analysis)
    /\ result = <<DepositAccum, DefaultTop4>>

\* the fallback path
C17_WitnessFallback ==
    /\ Done
    /\ ~IsEmpty(analysis)
    /\ AllScoresZero
    /\ result = <<DepositAccum, DefaultTop4>>

\* the ranking path without a draw
C17_WitnessRanked ==
    /\ Done
    /\ ~IsEmpty(analysis)
    /\ ~AllScoresZero
    /\ draw = NoDraw
    /\ result[1] = result[2][1]
    /\ result[2] # DefaultTop4

\* the place of a product in the ranking sorted(scores.items(), ...)
RankOf(p) ==
    CHOOSE i \in 1..Len(SortedScores(scores)) : SortedScores(scores)[i][1] = p

\* C18: the two deposits have the same score and 'Депозит накопительный'
\* is declared first, so 'Депозит сберегательный' is ranked right behind it
\* and never first; when 'Депозит накопительный' is ranked first outside
\* the fallback the gap to the second is 0 and random.random() is called;
\* 'Депозит сберегательный' is the winner only through the override, with a
\* draw below 0.3.
C18_SavingsOnlyByOverride ==
    (Done /\ ~IsEmpty(analysis)) =>
        /\ scores[DepositAccum] = scores[DepositSavings]
        /\ RankOf(DepositSavings) = RankOf(DepositAccum) + 1
        /\ \A i \in 1..Len(result[2]) :
              result[2][i] = DepositSavings => i > 1 /\ result[2][i - 1] = DepositAccum
        /\ (RankOf(DepositAccum) = 1 /\ ~AllScoresZero) =>
              /\ SortedScores(scores)[1][2] - SortedScores(scores)[2][2] = 0
              /\ rngCalls = 1
              /\ draw \in RandomValues
              /\ result[1] = IF draw < 30 THEN DepositSavings ELSE DepositAccum
        /\ result[1] = DepositSavings =>
              /\ RankOf(DepositAccum) = 1
              /\ ~AllScoresZero
              /\ draw \in RandomValues /\ draw < 30

C18_Witness ==
    /\ Done
    /\ ~IsEmpty(analysis)
    /\ scores[DepositAccum] = 17
    /\ result[2][1] = DepositAccum
    /\ result[2][2] = DepositSavings
    /\ draw = 10
    /\ result[1] = DepositSavings

\* the same ranking with a draw of 0.3: the first deposit is kept
C18_WitnessKept ==
    /\ Done
    /\ ~IsEmpty(analysis)
    /\ scores[DepositAccum] = 17
    /\ result[2][1] = DepositAccum
    /\ draw = 30
    /\ result[1] = DepositAccum

====
